---- MODULE Spec2Model ----
(***************************************************************************)
(* DogPuter: the admission gate, the content state machine, the feedback   *)
(* state and the video player of src/dogputer/core/app_state.py,           *)
(* src/dogputer/core/commands.py and src/dogputer/ui/video_player.py.      *)
(*                                                                         *)
(* Time is counted in tenths of a second.  One handler runs at one         *)
(* instant: every time.time() read inside it yields the same value `now'.  *)
(* File-system lookups and decoder results are inputs of the handler that  *)
(* performs them.                                                          *)
(*                                                                         *)
(* A handler that raises keeps the assignments it made before the raise    *)
(* and returns to its caller; last_call.raised records it.  The object can *)
(* still be called afterwards (DogPuter.run itself does not catch).        *)
(*                                                                         *)
(* The content names are two of the default key mapping; "water" is also   *)
(* the clip of the channel "Water".                                        *)
(*                                                                         *)
(* Beside the application object the module holds three more parts, each   *)
(* with a specification of its own: the image display of the top-level     *)
(* main.py (SpecLegacy), one InputMapper.map_event call with               *)
(* update_mappings running in another thread (SpecMapper), and the body of *)
(* DogPuter.run of src/dogputer/main.py with the web interface's           *)
(* save_mappings (SpecRun), where an exception that leaves a handler ends  *)
(* the loop.                                                               *)
(*                                                                         *)
(* Further parts are driven on their own: one InputMapper.map_event call   *)
(* as a function of table and event (SpecTranslate), the input handlers    *)
(* and their composite (SpecComposite, SpecAxis), load_keymapping          *)
(* (SpecKeymapping), the simplified AppState of app_state_simple.py        *)
(* (SpecSimple), the speech threads of TTSHandler (SpecTTS) and the        *)
(* VideoPlayer called directly (SpecPlayer).  The application is also      *)
(* followed after its commands have ceased (SpecQuiet) and with            *)
(* handle_key_press among its handlers (SpecKeyPress), ImageContent with   *)
(* the last selected image noted (SpecSelect), save_mappings and the       *)
(* configuration check statement by statement (SpecSync), and the          *)
(* RPiVideoPlayer of ui/rpi_video_player.py with its lock and its monitor  *)
(* threads (SpecRpi).                                                      *)
(***************************************************************************)
EXTENDS Integers, Sequences, FiniteSets, TLC

(* ---------------------------- bounds ----------------------------------- *)
MaxTime == 60
ClipDuration == 20
MaxFrameTime == 45
MaxImageTime == 35

Steps == {5, 15}
ImageSteps == {3, 5}

(* ------------------------ program constants ---------------------------- *)
BaseCooldown == 15
MaxCooldown == 50
DEFAULT_DISPLAY_TIME == 50
ChannelTextTime == 30
ImageTransitionDuration == 8
PlayerTransitionDuration == 10
FEEDBACK_DURATION == 18
ChannelCooldown == 15
AnimationDuration == 2
AxisThreshold == 5

(* the clock at construction: time.time() is far more than one cooldown    *)
(* past the 0 that last_input_time starts from                             *)
StartTime == BaseCooldown

None == "None"

BLUE == "blue"
YELLOW == "yellow"
RED == "red"

VIDEO_CHANNELS ==
  << [name |-> "Squirrels", video |-> "squirrels.mp4"],
     [name |-> "Birds",     video |-> "birds.mp4"],
     [name |-> "Dogs",      video |-> "dogs.mp4"],
     [name |-> "Cats",      video |-> "cats.mp4"],
     [name |-> "Water",     video |-> "water.mp4"] >>

NumChannels == Len(VIDEO_CHANNELS)

ContentNames == {"ball", "water"}

VideoFilename == [n \in ContentNames |-> IF n = "ball" THEN "ball.mp4" ELSE "water.mp4"]
ImageName == [n \in ContentNames |-> IF n = "ball" THEN "ball.jpg" ELSE "water.jpg"]

(* Python's % with a positive modulus *)
PyMod(a, n) == a % n

(* ----------------------------- commands -------------------------------- *)
ContentCommand(n) == [type |-> "content", content_name |-> n, direction |-> 0]
VideoChannelCommand(d) == [type |-> "channel", content_name |-> None, direction |-> d]
TogglePauseCommand == [type |-> "pause", content_name |-> None, direction |-> 0]

Commands ==
  {ContentCommand(n) : n \in ContentNames}
    \cup {VideoChannelCommand(d) : d \in {-1, 1}}
    \cup {TogglePauseCommand}

(* What the handler finds outside the program when it looks:               *)
(*   cwd    what os.path.exists finds under videos/ for the content name   *)
(*   file   what the player finds under its videos_dir for the file        *)
(*   image  whether load_image returns an image                            *)
(*   frame  whether the decoder delivers the frame that is asked for       *)
Envs ==
  [cwd : {"video", "placeholder", "none"},
   file : {"placeholder", "video", "corrupt", "missing"},
   image : BOOLEAN,
   frame : BOOLEAN]

NoEnv == [cwd |-> "none", file |-> "missing", image |-> FALSE, frame |-> TRUE]

VARIABLES now, mode, input_state, feedback_state, content_state, video_player, last_call,
          legacy, race, loop, trans, composite, keymap, simple, tts, player,
          selected_image, sync, rpi

vars == <<now, mode, input_state, feedback_state, content_state, video_player, last_call,
          legacy, race, loop, trans, composite, keymap, simple, tts, player,
          selected_image, sync, rpi>>

(* the application object of src/dogputer *)
appvars == <<mode, input_state, feedback_state, content_state, video_player, last_call>>

(* what an observer of a part keeps in mind: the image selected last       *)
(* the web interface's thread beside the configuration check of the loop, *)
(* and the player of the Raspberry Pi with its monitor threads             *)
later == <<sync, rpi>>
more == <<selected_image, later>>

(* the parts that are driven on their own: one call of map_event, the      *)
(* composite input handler, load_keymapping, the simplified AppState, the  *)
(* text-to-speech handler, the video player called directly               *)
parts == <<trans, composite, keymap, simple, tts, player, more>>

(* what stands beside it: the top-level main.py program, the input mapper  *)
(* shared by two threads, and the main loop with the web interface         *)
others == <<legacy, race, loop, parts>>

(* the record of what the last handler did, for stating the claims *)
NoCall ==
  [op |-> "none", cmd |-> TogglePauseCommand, executed |-> FALSE, rejected |-> FALSE,
   play_video_calls |-> 0, played |-> None, raised |-> FALSE, is_complete |-> FALSE,
   load_image |-> "not_called", feedback_cleared |-> FALSE,
   execute_calls |-> 0, channel_change |-> "none", direction |-> 0, render |-> <<>>,
   key |-> None]

(* ------------------------------ InputState ----------------------------- *)
InputState_init ==
  [last_input_time |-> 0, base_cooldown |-> BaseCooldown, max_cooldown |-> MaxCooldown,
   input_cooldown |-> BaseCooldown, last_channel_change |-> 0, rejected_inputs_count |-> 0]

wrong_is_input_allowed(is, t) ==
  LET ok == t - is.last_input_time > is.input_cooldown IN
  [allowed |-> ok,
   is |-> IF ok THEN [is EXCEPT !.input_cooldown = is.base_cooldown, !.rejected_inputs_count = 0]
          ELSE is]

is_input_allowed(is, t) ==
  LET ok == t - is.last_input_time >= is.input_cooldown IN
  [allowed |-> ok,
   is |-> IF ok THEN [is EXCEPT !.input_cooldown = is.base_cooldown, !.rejected_inputs_count = 0]
          ELSE is]

wrong_record_input(is, t) ==
  [is EXCEPT !.last_input_time = t, !.input_cooldown = is.input_cooldown * 2]

record_input(is, t) == [is EXCEPT !.last_input_time = t]

(* last_channel_change is set by the constructor, so hasattr is true *)
is_channel_change_allowed(is, t) == t - is.last_channel_change >= ChannelCooldown

wrong_record_channel_change(is, t) == is

record_channel_change(is, t) == [is EXCEPT !.last_channel_change = t, !.last_input_time = t]

(* ------------------------------ FeedbackState -------------------------- *)
FeedbackState_init ==
  [message |-> "", color |-> BLUE, start_time |-> 0, is_active |-> FALSE, input_rejected |-> FALSE]

(* messages are kept by kind; "too_fast" is the only one containing "too fast" *)
show_feedback(fs, message, color, t) ==
  [fs EXCEPT !.message = message, !.color = color, !.start_time = t, !.is_active = TRUE,
             !.input_rejected = (message = "too_fast" \/ color = YELLOW)]

(* ------------------------------ VideoPlayer ---------------------------- *)
VideoPlayer_init ==
  [current_video |-> None, video_surface |-> None, start_time |-> 0, paused |-> FALSE,
   pause_time |-> 0, in_transition |-> FALSE, transition_start_time |-> 0,
   previous_frame |-> FALSE, next_video |-> None]

(* the clip length the decoder reports for a file *)
Duration(video) == ClipDuration

(* VideoPlayer.play_video: result [p, ok]; fstat is what is found on disk  *)
(* for video_file, frame whether the frame kept for the fade is obtained   *)
VideoPlayer_play_video(p, video_file, t, fstat, frame) ==
  CASE fstat = "placeholder" ->
         (* _create_text_frame *)
         [p |-> [p EXCEPT !.video_surface = "TextFrame", !.start_time = t, !.current_video = None],
          ok |-> TRUE]
    [] fstat = "video" ->
         IF p.current_video # None
         THEN [p |-> [p EXCEPT !.previous_frame = frame, !.in_transition = TRUE,
                               !.transition_start_time = t, !.next_video = video_file],
               ok |-> TRUE]
         ELSE [p |-> [p EXCEPT !.current_video = video_file, !.video_surface = "Surface",
                               !.start_time = t, !.paused = FALSE],
               ok |-> TRUE]
    [] fstat = "corrupt" ->
         (* VideoFileClip raises; the except branch of play_video *)
         IF p.current_video # None
         THEN [p |-> [p EXCEPT !.previous_frame = frame, !.transition_start_time = t,
                               !.current_video = None, !.next_video = None,
                               !.in_transition = FALSE],
               ok |-> FALSE]
         ELSE [p |-> [p EXCEPT !.current_video = None, !.next_video = None,
                               !.in_transition = FALSE],
               ok |-> FALSE]
    [] OTHER -> [p |-> p, ok |-> FALSE]

VideoPlayer_stop(p) ==
  LET p1 == IF p.current_video # None
            THEN [p EXCEPT !.current_video = None, !.video_surface = None, !.paused = FALSE]
            ELSE p
  IN [p1 EXCEPT !.next_video = None, !.in_transition = FALSE, !.previous_frame = FALSE]

VideoPlayer_pause(p, t) ==
  IF p.current_video # None /\ ~p.paused
  THEN [p EXCEPT !.paused = TRUE, !.pause_time = t - p.start_time]
  ELSE p

wrong_VideoPlayer_resume(p, t) ==
  IF p.current_video # None /\ p.paused
  THEN [p EXCEPT !.paused = FALSE]
  ELSE p

VideoPlayer_resume(p, t) ==
  IF p.current_video # None /\ p.paused
  THEN [p EXCEPT !.paused = FALSE, !.start_time = t - p.pause_time]
  ELSE p

VideoPlayer_toggle_pause(p, t) ==
  IF p.paused THEN VideoPlayer_resume(p, t) ELSE VideoPlayer_pause(p, t)

(* the tail of VideoPlayer.update: normal playback *)
(* `surface' tells whether the call hands a frame surface back; `frame' is *)
(* whether the decoder delivers the frame that is asked for                *)
wrong_VideoPlayer_playback(p, t, frame) ==
  IF p.current_video = None \/ p.paused
  THEN [p |-> p, is_complete |-> FALSE, raised |-> FALSE, surface |-> FALSE]
  ELSE IF t - p.start_time >= Duration(p.current_video)
  THEN [p |-> p, is_complete |-> TRUE, raised |-> FALSE, surface |-> FALSE]
  ELSE [p |-> p, is_complete |-> FALSE, raised |-> FALSE, surface |-> frame]

VideoPlayer_playback(p, t, frame) ==
  IF p.current_video = None \/ p.paused
  THEN [p |-> p, is_complete |-> FALSE, raised |-> FALSE, surface |-> FALSE]
  ELSE IF t - p.start_time > Duration(p.current_video)
  THEN [p |-> p, is_complete |-> TRUE, raised |-> FALSE, surface |-> FALSE]
  ELSE [p |-> p, is_complete |-> FALSE, raised |-> FALSE, surface |-> frame]

(* VideoPlayer.update: result [p, is_complete, raised, surface]; raised    *)
(* stands for the bare None it returns when the first frame of the new     *)
(* clip cannot be decoded, which a caller that unpacks two values cannot   *)
(* take                                                                    *)
wrong_VideoPlayer_update(p, t, frame) ==
  IF p.current_video = None /\ p.video_surface # None
  THEN [p |-> p, is_complete |-> FALSE, raised |-> FALSE, surface |-> TRUE]
  ELSE IF p.in_transition
  THEN IF t - p.transition_start_time > PlayerTransitionDuration
       THEN LET p1 == [p EXCEPT !.current_video = p.next_video, !.next_video = None,
                                !.in_transition = FALSE, !.previous_frame = FALSE,
                                !.start_time = t]
            IN IF p1.current_video # None
               THEN [p |-> p1, is_complete |-> FALSE, raised |-> ~frame, surface |-> frame]
               ELSE VideoPlayer_playback(p1, t, frame)
       ELSE IF p.previous_frame /\ p.next_video # None
       THEN IF frame
            THEN [p |-> p, is_complete |-> FALSE, raised |-> FALSE, surface |-> TRUE]
            ELSE VideoPlayer_playback(
                   [p EXCEPT !.in_transition = FALSE, !.current_video = p.next_video,
                             !.next_video = None, !.start_time = t], t, frame)
       ELSE VideoPlayer_playback(p, t, frame)
  ELSE VideoPlayer_playback(p, t, frame)

VideoPlayer_update(p, t, frame) ==
  IF p.current_video = None /\ p.video_surface # None
  THEN [p |-> p, is_complete |-> FALSE, raised |-> FALSE, surface |-> TRUE]
  ELSE IF p.in_transition
  THEN IF t - p.transition_start_time >= PlayerTransitionDuration
       THEN LET p1 == [p EXCEPT !.current_video = p.next_video, !.next_video = None,
                                !.in_transition = FALSE, !.previous_frame = FALSE,
                                !.start_time = t]
            IN IF p1.current_video # None
               THEN [p |-> p1, is_complete |-> FALSE, raised |-> ~frame, surface |-> frame]
               ELSE VideoPlayer_playback(p1, t, frame)
       ELSE IF p.previous_frame /\ p.next_video # None
       THEN IF frame
            THEN [p |-> p, is_complete |-> FALSE, raised |-> FALSE, surface |-> TRUE]
            ELSE VideoPlayer_playback(
                   [p EXCEPT !.in_transition = FALSE, !.current_video = p.next_video,
                             !.next_video = None, !.start_time = t], t, frame)
       ELSE VideoPlayer_playback(p, t, frame)
  ELSE VideoPlayer_playback(p, t, frame)

(* ------------------------------ ContentState --------------------------- *)
ImageContent_init ==
  [current_image |-> None, previous_image |-> None, next_image |-> None, in_transition |-> FALSE,
   transition_start_time |-> 0, display_end_time |-> 0]

VideoContent_init == [current_channel |-> 0, is_playing |-> FALSE, current_video_filename |-> None]

TextContent_init == [text |-> "", display_end_time |-> 0]

ContentState_init ==
  [current_type |-> "WAITING", image_content |-> ImageContent_init,
   video_content |-> VideoContent_init, text_content |-> TextContent_init]

(* ------------------- operations on the application ------------------- *)
(* An application value `a' bundles mode, input_state, feedback_state,     *)
(* content_state, video_player and the record `log' of the running handler *)

Raise(a) == [a EXCEPT !.log.raised = TRUE]

App_show_feedback(a, message, color, t) ==
  [a EXCEPT !.feedback_state = show_feedback(a.feedback_state, message, color, t)]

(* a call of video_player.play_video made by the application: [a, ok] *)
App_play_video(a, video_file, t, env) ==
  LET r == VideoPlayer_play_video(a.video_player, video_file, t, env.file, env.frame) IN
  [a |-> [a EXCEPT !.video_player = r.p,
                   !.log.play_video_calls = a.log.play_video_calls + 1,
                   !.log.played = video_file],
   ok |-> r.ok]

ImageContent_set_image(ic, image, display_time, t) ==
  IF ic.current_image # None /\ ~ic.in_transition
  THEN [ic EXCEPT !.previous_image = ic.current_image, !.next_image = image,
                  !.in_transition = TRUE, !.transition_start_time = t,
                  !.display_end_time = t + display_time + ImageTransitionDuration]
  ELSE [ic EXCEPT !.current_image = image, !.display_end_time = t + display_time]

wrong_ImageContent_update(ic, t) ==
  LET ic1 == IF ic.in_transition /\ t - ic.transition_start_time > ImageTransitionDuration
             THEN [ic EXCEPT !.current_image = ic.next_image, !.previous_image = None,
                             !.next_image = None, !.in_transition = FALSE]
             ELSE ic
  IN [ic |-> ic1, showing |-> t < ic1.display_end_time]

(* ImageContent.update: [ic, showing] *)
ImageContent_update(ic, t) ==
  LET ic1 == IF ic.in_transition /\ t - ic.transition_start_time >= ImageTransitionDuration
             THEN [ic EXCEPT !.current_image = ic.next_image, !.previous_image = None,
                             !.next_image = None, !.in_transition = FALSE]
             ELSE ic
  IN [ic |-> ic1, showing |-> t < ic1.display_end_time]

VideoContent_stop(a) ==
  IF a.content_state.video_content.is_playing
  THEN [a EXCEPT !.video_player = VideoPlayer_stop(a.video_player),
                 !.content_state.video_content.is_playing = FALSE]
  ELSE a

(* VideoContent.play_channel: [a, success, channel_name] *)
VideoContent_play_channel(a, channel_index, t, env) ==
  IF 0 <= channel_index /\ channel_index < NumChannels
  THEN LET a1 == [a EXCEPT !.content_state.video_content.current_channel = channel_index]
           channel == VIDEO_CHANNELS[channel_index + 1]
           r == App_play_video(a1, channel.video, t, env)
       IN IF r.ok
          THEN [a |-> [r.a EXCEPT !.content_state.video_content.is_playing = TRUE],
                success |-> TRUE, channel_name |-> None]
          ELSE [a |-> [r.a EXCEPT !.content_state.video_content.is_playing = FALSE],
                success |-> FALSE, channel_name |-> channel.name]
  ELSE [a |-> a, success |-> FALSE, channel_name |-> None]

VideoContent_change_channel(a, direction, t, env) ==
  LET new_channel == PyMod(a.content_state.video_content.current_channel + direction, NumChannels)
  IN VideoContent_play_channel(a, new_channel, t, env)

(* ContentState.set_image: the last assignment names ContentType.IMAGE,    *)
(* which the enum does not define, and raises AttributeError               *)
ContentState_set_image(a, image, display_time, t) ==
  LET a1 == VideoContent_stop(a)
      a2 == [a1 EXCEPT !.content_state.image_content =
                          ImageContent_set_image(a1.content_state.image_content,
                                                 image, display_time, t)]
  IN Raise(a2)

(* ContentState.set_video_by_filename: [a, ok] *)
ContentState_set_video_by_filename(a, video_filename, t, env) ==
  LET r == App_play_video(a, video_filename, t, env) IN
  IF r.ok
  THEN [a |-> [r.a EXCEPT !.content_state.video_content.is_playing = TRUE,
                          !.content_state.current_type = "VIDEO"],
        ok |-> TRUE]
  ELSE [a |-> r.a, ok |-> FALSE]

(* ContentState.set_text; the font handed in by AppState is always set *)
ContentState_set_text(a, text, display_time, t) ==
  LET a1 == VideoContent_stop(a) IN
  [a1 EXCEPT !.content_state.text_content = [text |-> text, display_end_time |-> t + display_time],
             !.content_state.current_type = "TEXT"]

(* ContentState.change_video_channel: [a, success, channel_name] *)
ContentState_change_video_channel(a, direction, t, env) ==
  IF a.content_state.current_type = "VIDEO"
  THEN LET r == VideoContent_change_channel(a, direction, t, env) IN
       IF ~r.success /\ r.channel_name # None
       THEN [a |-> r.a, success |-> FALSE, channel_name |-> r.channel_name]
       ELSE [a |-> r.a, success |-> r.success, channel_name |-> None]
  ELSE [a |-> a, success |-> FALSE, channel_name |-> None]

(* ------------------------------- commands ------------------------------ *)
ContentCommand_display_image_fallback(a, content_name, t, env) ==
  IF env.image
  THEN (* set_image raises before mode = Mode.IMAGE is reached *)
       ContentState_set_image([a EXCEPT !.log.load_image = "image"],
                              ImageName[content_name], DEFAULT_DISPLAY_TIME, t)
  ELSE App_show_feedback([a EXCEPT !.log.load_image = "None"], "failed_image", RED, t)

ContentCommand_already_playing(a, video_filename) ==
  /\ a.mode = "VIDEO"
  /\ a.content_state.video_content.is_playing
  /\ a.content_state.video_content.current_video_filename # None
  /\ a.content_state.video_content.current_video_filename = video_filename

ContentCommand_execute(a, content_name, t, env) ==
  LET a1 == App_show_feedback(a, "selected", BLUE, t)
      video_filename == VideoFilename[content_name]
  IN IF ContentCommand_already_playing(a1, video_filename)
     THEN a1
     ELSE IF env.cwd = "video"
     THEN LET r == ContentState_set_video_by_filename(a1, video_filename, t, env) IN
          IF r.ok
          THEN [r.a EXCEPT !.mode = "VIDEO",
                           !.content_state.video_content.current_video_filename = video_filename]
          ELSE ContentCommand_display_image_fallback(r.a, content_name, t, env)
     ELSE IF env.cwd = "placeholder"
     THEN LET a2 == ContentCommand_display_image_fallback(a1, content_name, t, env) IN
          IF a2.log.raised THEN a2 ELSE App_show_feedback(a2, "placeholder", BLUE, t)
     ELSE ContentCommand_display_image_fallback(a1, content_name, t, env)

VideoChannelCommand_execute(a, direction, t, env) ==
  LET a1 == [a EXCEPT !.input_state = record_channel_change(a.input_state, t),
                      !.log.channel_change = "executed"]
      a2 == App_show_feedback(a1, "channel_changed", BLUE, t)
      r == ContentState_change_video_channel(a2, direction, t, env)
  IN IF ~r.success /\ r.channel_name # None
     THEN [ContentState_set_text(r.a, r.channel_name, ChannelTextTime, t) EXCEPT !.mode = "TEXT"]
     ELSE r.a

TogglePauseCommand_execute(a, t) ==
  IF a.mode = "VIDEO" /\ a.content_state.video_content.is_playing
  THEN LET a1 == [a EXCEPT !.video_player = VideoPlayer_toggle_pause(a.video_player, t)] IN
       App_show_feedback(a1, IF a1.video_player.paused THEN "paused" ELSE "resumed", BLUE, t)
  ELSE a

Command_execute(a, cmd, t, env) ==
  LET a1 == [a EXCEPT !.log.executed = TRUE, !.log.execute_calls = a.log.execute_calls + 1] IN
  CASE cmd.type = "content" -> ContentCommand_execute(a1, cmd.content_name, t, env)
    [] cmd.type = "channel" -> VideoChannelCommand_execute(a1, cmd.direction, t, env)
    [] OTHER -> TogglePauseCommand_execute(a1, t)

(* ------------------------------- AppState ------------------------------ *)
wrong_AppState_reject(a, t) ==
  [App_show_feedback(a, "too_fast", YELLOW, t) EXCEPT
     !.input_state = record_input(a.input_state, t), !.log.rejected = TRUE]

(* the rejecting branch of handle_command and of handle_key_press *)
AppState_reject(a, t) ==
  [App_show_feedback(a, "too_fast", YELLOW, t) EXCEPT !.log.rejected = TRUE]

AppState_handle_command(a, cmd, t, env) ==
  LET g == is_input_allowed(a.input_state, t)
      a0 == [a EXCEPT !.input_state = g.is]
  IN IF ~g.allowed
     THEN AppState_reject(a0, t)
     ELSE LET a1 == IF a0.mode = "WAITING"
                    THEN [App_show_feedback(a0, "accepted", BLUE, t) EXCEPT
                            !.input_state = record_input(a0.input_state, t)]
                    ELSE a0
              a2 == [a1 EXCEPT !.input_state = record_input(a1.input_state, t)]
          IN Command_execute(a2, cmd, t, env)

(* the keys that are pressed: "K_z" is named by the handler itself, two    *)
(* keys are in INPUT_MAPPINGS with a content name, one with a video_        *)
(* command, one is not mapped                                              *)
Keys == {"K_z", "K_a", "K_w", "K_RIGHT", "K_q"}

INPUT_MAPPINGS == [k \in {"K_a", "K_w", "K_RIGHT"} |->
                     CASE k = "K_a" -> "ball" [] k = "K_w" -> "water" [] OTHER -> "video_next"]

KeyIsMapped(key) == key = "K_z" \/ key \in DOMAIN INPUT_MAPPINGS

(* the command name the handler finds for the key, None when there is none *)
KeyCommandName(key) ==
  IF key = "K_z" THEN "ball"
  ELSE IF key \in DOMAIN INPUT_MAPPINGS THEN INPUT_MAPPINGS[key]
  ELSE None

(* str.startswith("video_") for the command names above *)
StartsWithVideo(command_name) == command_name \in {"video_next"}

AppState_handle_key_press(a, key, t, env) ==
  LET g == is_input_allowed(a.input_state, t)
      a0 == [a EXCEPT !.input_state = g.is]
  IN IF ~g.allowed
     THEN AppState_reject(a0, t)
     ELSE LET a1 == IF a0.mode = "WAITING"
                    THEN [App_show_feedback(a0, "accepted", BLUE, t) EXCEPT
                            !.input_state = record_input(a0.input_state, t)]
                    ELSE a0
              command_name == KeyCommandName(key)
          IN IF command_name = None
             THEN a1
             ELSE IF StartsWithVideo(command_name)
             THEN [a1 EXCEPT !.input_state = record_input(a1.input_state, t)]
             ELSE AppState_handle_command(a1, ContentCommand(command_name), t, env)

wrong_FeedbackState_update(a, t) ==
  LET fs == a.feedback_state IN
  IF ~fs.is_active
  THEN a
  ELSE IF t - fs.start_time >= FEEDBACK_DURATION
  THEN [a EXCEPT !.feedback_state.is_active = FALSE, !.log.feedback_cleared = TRUE]
  ELSE a

FeedbackState_update(a, t) ==
  LET fs == a.feedback_state IN
  IF ~fs.is_active
  THEN a
  ELSE IF fs.input_rejected
  THEN LET g == is_input_allowed(a.input_state, t) IN
       IF g.allowed
       THEN [a EXCEPT !.input_state = g.is, !.feedback_state.is_active = FALSE,
                      !.feedback_state.input_rejected = FALSE,
                      !.log.feedback_cleared = TRUE]
       ELSE [a EXCEPT !.input_state = g.is]
  ELSE IF t - fs.start_time >= FEEDBACK_DURATION
  THEN [a EXCEPT !.feedback_state.is_active = FALSE, !.log.feedback_cleared = TRUE]
  ELSE a

(* ContentState.update: [a, mode_changed] *)
ContentState_update(a, t, env) ==
  CASE a.content_state.current_type = "TEXT" ->
         IF ~(t < a.content_state.text_content.display_end_time)
         THEN [a |-> [a EXCEPT !.content_state.current_type = "WAITING"], mode_changed |-> TRUE]
         ELSE [a |-> a, mode_changed |-> FALSE]
    [] a.content_state.current_type = "VIDEO" ->
         LET r == VideoPlayer_update(a.video_player, t, env.frame)
             a1 == [a EXCEPT !.video_player = r.p, !.log.is_complete = r.is_complete]
         IN IF r.raised
            THEN [a |-> Raise(a1), mode_changed |-> FALSE]
            ELSE IF r.is_complete
            THEN [a |-> [VideoContent_stop(a1) EXCEPT !.content_state.current_type = "WAITING"],
                  mode_changed |-> TRUE]
            ELSE [a |-> a1, mode_changed |-> FALSE]
    [] OTHER -> [a |-> a, mode_changed |-> FALSE]

(* the mode that mirrors a content type *)
ModeOf(current_type) == current_type

AppState_update(a, t, env) ==
  LET a1 == FeedbackState_update(a, t)
      a2 == [a1 EXCEPT !.mode = ModeOf(a1.content_state.current_type)]
      r == ContentState_update(a2, t, env)
  IN IF r.a.log.raised
     THEN r.a
     ELSE IF r.mode_changed
     THEN [r.a EXCEPT !.mode = ModeOf(r.a.content_state.current_type)]
     ELSE r.a

ContentState_set_waiting(a) ==
  [VideoContent_stop(a) EXCEPT !.content_state.current_type = "WAITING"]

(* AppState.change_channel *)
AppState_change_channel(a, direction, t, env) ==
  IF ~is_channel_change_allowed(a.input_state, t)
  THEN [App_show_feedback(a, "too_fast", YELLOW, t) EXCEPT !.log.channel_change = "rejected"]
  ELSE LET a1 == [a EXCEPT !.input_state = record_channel_change(a.input_state, t),
                           !.log.channel_change = "executed"]
           a2 == App_show_feedback(a1, "channel_changed", BLUE, t)
           r == ContentState_change_video_channel(a2, direction, t, env)
       IN IF ~r.success /\ r.channel_name # None
          THEN [ContentState_set_text(r.a, r.channel_name, ChannelTextTime, t) EXCEPT
                  !.mode = "TEXT"]
          ELSE r.a

(* the direction the axis positions ask for; 0 when neither is beyond the  *)
(* threshold                                                               *)
JoystickDirection(x_axis, y_axis) ==
  IF x_axis > AxisThreshold THEN 1
  ELSE IF x_axis < -AxisThreshold THEN -1
  ELSE IF y_axis > AxisThreshold THEN 1
  ELSE IF y_axis < -AxisThreshold THEN -1
  ELSE 0

Abs(v) == IF v < 0 THEN -v ELSE v

(* AppState.handle_joystick(joystick); joystick is whether one is attached *)
AppState_handle_joystick(a, joystick, x_axis, y_axis, t, env) ==
  IF ~joystick
  THEN a
  ELSE LET g == is_input_allowed(a.input_state, t)
           a0 == [a EXCEPT !.input_state = g.is]
       IN IF ~g.allowed
          THEN a0
          ELSE IF a0.mode = "WAITING"
          THEN IF Abs(x_axis) > AxisThreshold \/ Abs(y_axis) > AxisThreshold
               THEN LET a1 == [ContentState_set_waiting(a0) EXCEPT !.mode = "WAITING"]
                        a2 == App_show_feedback(a1, "accepted", BLUE, t)
                    IN [a2 EXCEPT !.input_state = record_input(a2.input_state, t)]
               ELSE a0
          ELSE IF JoystickDirection(x_axis, y_axis) # 0
          THEN AppState_change_channel(a0, JoystickDirection(x_axis, y_axis), t, env)
          ELSE a0

(* ------------------------------ the view state ------------------------- *)
(* A render command keeps its z_index, the view that produced it (`layer') *)
(* and its place in the order of generation (`seq').                       *)
RenderCommand(layer, z_index) == [layer |-> layer, z_index |-> z_index, seq |-> 0]

add_command(render_commands, command) ==
  Append(render_commands, [command EXCEPT !.seq = Len(render_commands) + 1])

RECURSIVE add_commands(_, _, _)
add_commands(render_commands, layer, zs) ==
  IF zs = <<>>
  THEN render_commands
  ELSE add_commands(add_command(render_commands, RenderCommand(layer, Head(zs))),
                    layer, Tail(zs))

(* list.sort(key = z_index) is stable: a command goes behind the commands  *)
(* already placed whose z_index is not larger                              *)
SortedInsert(sorted, command) ==
  LET k == Cardinality({i \in 1..Len(sorted) : sorted[i].z_index <= command.z_index})
  IN SubSeq(sorted, 1, k) \o <<command>> \o SubSeq(sorted, k + 1, Len(sorted))

RECURSIVE SortInto(_, _)
SortInto(sorted, rest) ==
  IF rest = <<>> THEN sorted ELSE SortInto(SortedInsert(sorted, Head(rest)), Tail(rest))

wrong_sort_commands(render_commands) ==
  render_commands

sort_commands(render_commands) ==
  SortInto(<<>>, render_commands)

(* _generate_waiting_screen_view: background, glow, four outlines, main    *)
(* text, subtitle, paw cursor and its glow (DogPuter sets the paw cursor)  *)
WaitingScreenView(view) ==
  add_commands(view, "content", <<0, 1, 2, 2, 2, 2, 3, 2, 3, 2>>)

(* _generate_video_view: [a, view]; it asks the player for the frame       *)
VideoView(view, a, t, env) ==
  LET r == VideoPlayer_update(a.video_player, t, env.frame)
      a1 == [a EXCEPT !.video_player = r.p]
  IN IF r.surface
     THEN [a |-> a1,
           view |-> add_commands(view, "content",
                      IF a.content_state.video_content.current_video_filename # None
                      THEN <<0, 10, 5>> ELSE <<0, 5>>)]
     ELSE [a |-> a1, view |-> view]

(* _generate_text_view: set_text has rendered the surface *)
TextView(view) ==
  add_commands(view, "content", <<0>>)

is_animating(fs, t) == fs.is_active /\ t - fs.start_time < AnimationDuration

(* _generate_feedback_view: nothing for a channel message, else the icon,  *)
(* the progress ring of a rejection and the flash of a fresh feedback      *)
FeedbackView(view, a, t) ==
  LET fs == a.feedback_state
      is_error == fs.message = "too_fast" \/ fs.color = YELLOW
  IN IF fs.message = "channel_changed"
     THEN view
     ELSE add_commands(view, "feedback",
            <<15>> \o (IF is_error /\ fs.input_rejected THEN <<14>> ELSE <<>>)
                   \o (IF is_animating(fs, t) THEN <<13>> ELSE <<>>))

(* ViewStateGenerator.generate_view_state(app_state) *)
generate_view_state(a, t, env) ==
  LET r == CASE a.mode = "WAITING" -> [a |-> a, view |-> WaitingScreenView(<<>>)]
             [] a.mode = "VIDEO" -> VideoView(<<>>, a, t, env)
             [] a.mode = "TEXT" -> [a |-> a, view |-> TextView(<<>>)]
             [] OTHER -> [a |-> a, view |-> <<>>]
      view == IF r.a.feedback_state.is_active THEN FeedbackView(r.view, r.a, t) ELSE r.view
  IN [r.a EXCEPT !.log.render = sort_commands(view)]

(* ------------------- the top-level main.py program --------------------- *)
(* DogPuter of the top-level main.py: the fields its image display uses    *)
LegacyInputCooldown == 5
LegacyTransitionDuration == 8
LegacyDisplayTime == 50
LegacyTextTime == 30

(* two of the KEY_MAPPINGS, each with its image *)
LegacyKeyMappings == [k \in {"K_d", "K_f"} |-> IF k = "K_d" THEN "ball.jpg" ELSE "treat.jpg"]

(* a key of the arrow-key table with its channel index, and a key of none  *)
LegacyArrowKeyMappings == [k \in {"K_UP"} |-> 1]

(* len(VIDEO_CHANNELS) *)
LegacyNumChannels == 5

LegacyKeys == DOMAIN LegacyKeyMappings \cup DOMAIN LegacyArrowKeyMappings \cup {"K_q"}

Legacy_init ==
  [current_image |-> None, image_end_time |-> 0, current_channel |-> 0,
   playing_video |-> FALSE, show_waiting_screen |-> TRUE, last_input_time |-> 0,
   in_transition |-> FALSE, transition_start_time |-> 0,
   previous_image |-> None, next_image |-> None, call |-> "none"]

(* DogPuter.load_image: None when the file cannot be loaded *)
Legacy_load_image(image_name, loaded) == IF loaded THEN image_name ELSE None

(* DogPuter.display_text *)
Legacy_display_text(l, t) ==
  [l EXCEPT !.current_image = "text", !.image_end_time = t + LegacyTextTime]

(* DogPuter.handle_key_press(key); loaded is whether the image file loads, *)
(* played whether the channel's video starts                               *)
Legacy_handle_key_press(l, key, t, loaded, played) ==
  IF t - l.last_input_time < LegacyInputCooldown
  THEN l
  ELSE IF l.show_waiting_screen
  THEN [l EXCEPT !.show_waiting_screen = FALSE, !.last_input_time = t]
  ELSE IF key \in DOMAIN LegacyKeyMappings
  THEN LET l1 == [l EXCEPT !.last_input_time = t]
           l2 == IF l1.current_image # None /\ ~l1.in_transition
                 THEN [l1 EXCEPT !.previous_image = l1.current_image,
                                 !.next_image = Legacy_load_image(LegacyKeyMappings[key], loaded),
                                 !.in_transition = TRUE, !.transition_start_time = t]
                 ELSE [l1 EXCEPT !.current_image =
                                    Legacy_load_image(LegacyKeyMappings[key], loaded)]
           l3 == [l2 EXCEPT !.image_end_time =
                              t + LegacyDisplayTime
                                + (IF l2.in_transition THEN LegacyTransitionDuration ELSE 0)]
       IN IF l3.playing_video THEN [l3 EXCEPT !.playing_video = FALSE] ELSE l3
  ELSE IF key \in DOMAIN LegacyArrowKeyMappings
  THEN LET channel_index == LegacyArrowKeyMappings[key]
           l1 == [l EXCEPT !.last_input_time = t]
       IN IF 0 <= channel_index /\ channel_index < LegacyNumChannels
          THEN LET l2 == [l1 EXCEPT !.current_channel = channel_index, !.current_image = None,
                                    !.image_end_time = 0, !.in_transition = FALSE]
               IN IF played
                  THEN [l2 EXCEPT !.playing_video = TRUE]
                  ELSE Legacy_display_text([l2 EXCEPT !.playing_video = FALSE], t)
          ELSE l1
  ELSE l

(* the display part of one pass of DogPuter.run *)
Legacy_frame(l, t) ==
  IF l.show_waiting_screen
  THEN l
  ELSE IF l.playing_video
  THEN l
  ELSE IF l.in_transition /\ l.previous_image # None /\ l.next_image # None
  THEN IF t - l.transition_start_time >= LegacyTransitionDuration
       THEN [l EXCEPT !.current_image = l.next_image, !.previous_image = None,
                      !.next_image = None, !.in_transition = FALSE]
       ELSE l
  ELSE IF l.current_image # None /\ t < l.image_end_time
  THEN l
  ELSE [l EXCEPT !.show_waiting_screen = TRUE]

(* ------------- the input mapper under a concurrent update -------------- *)
ExitCommand == [type |-> "exit", content_name |-> None, direction |-> 0]

(* None where a command is expected *)
NoCommand == [type |-> "none", content_name |-> None, direction |-> 0]

(* the names that start with "video_", each with what follows the prefix   *)
WithoutVideoPrefix == [n \in {"video_ball"} |-> "ball"]

(* InputMapper._create_command_from_name without the video_ branch *)
wrong_create_command_from_name(command_name) ==
  CASE command_name = "channel_next" -> VideoChannelCommand(1)
    [] command_name = "channel_prev" -> VideoChannelCommand(-1)
    [] command_name = "pause" -> TogglePauseCommand
    [] command_name = "exit" -> ExitCommand
    [] OTHER -> ContentCommand(command_name)

(* InputMapper._create_command_from_name *)
create_command_from_name(command_name) ==
  CASE command_name = "channel_next" -> VideoChannelCommand(1)
    [] command_name = "channel_prev" -> VideoChannelCommand(-1)
    [] command_name = "pause" -> TogglePauseCommand
    [] command_name = "exit" -> ExitCommand
    [] command_name \in DOMAIN WithoutVideoPrefix ->
         ContentCommand(WithoutVideoPrefix[command_name])
    [] OTHER -> ContentCommand(command_name)

(* the inputs a table can have an entry for: a key and a joystick button *)
MappedInputs == {"K_a", "button0"}
CommandNames == {"ball", "video_ball", "channel_next"}

(* a mapping table: each input has a command name or no entry (None) *)
Tables == [MappedInputs -> CommandNames \cup {None}]

DefaultTable == [i \in MappedInputs |-> IF i = "K_a" THEN "ball" ELSE "channel_next"]

(* key in table *)
HasEntry(table, input) == input \in DOMAIN table /\ table[input] # None

(* InputMapper._map_key_event and _map_joystick_button_event run in one    *)
(* piece against one table: the command, or NoCommand                      *)
map_input(table, input) ==
  IF input = "K_ESCAPE"
  THEN ExitCommand
  ELSE IF HasEntry(table, input)
  THEN create_command_from_name(table[input])
  ELSE NoCommand

(* the mapper and one call of map_event in progress:                       *)
(*   pc       "idle", "called", "tested" (the membership test is done),     *)
(*            "done"                                                        *)
(*   event    the input being translated                                    *)
(*   found    the outcome of the membership test                            *)
(*   result   the command returned, or NoCommand; raised: a KeyError        *)
(*   seen     the tables input_mappings held at some time during the call   *)
Race_init ==
  [input_mappings |-> DefaultTable, pc |-> "idle", event |-> None, found |-> FALSE,
   result |-> NoCommand, raised |-> FALSE, seen |-> {}, updates |-> 0]

(* ----------------------------- DogPuter.run ---------------------------- *)
ConfigCheckInterval == 20
AxisDeadzone == 5

(* joystick.get_axis for <<axis 0, axis 1>>: rest, axis 0 held either way, *)
(* both axes held                                                          *)
RunAxes == {<<0, 0>>, <<10, 0>>, <<-10, 0>>, <<10, 10>>}

(* what the event queue holds when it is drained: nothing, a mapped key,   *)
(* ESC                                                                     *)
RunEvents == {None, "K_a", "K_ESCAPE"}

(* the tables the web interface saves: the two inputs exchanged, and {}    *)
EmptyTable == [i \in MappedInputs |-> None]
SavedTables == {[i \in MappedInputs |-> IF i = "K_a" THEN "channel_next" ELSE "ball"], EmptyTable}

(* `if new_mappings:' *)
NonEmptyTable(table) == \E i \in DOMAIN table : table[i] # None

(* the key ('axis', joy_id, axis, direction) *)
AxisKey(axis, value) ==
  IF value > 0
  THEN (IF axis = 0 THEN "axis0_positive" ELSE "axis1_positive")
  ELSE (IF axis = 0 THEN "axis0_negative" ELSE "axis1_negative")

(* InputMapper.map_axis_to_command(joy_id, axis, value) *)
map_axis_to_command(table, axis, value) ==
  IF Abs(value) < AxisDeadzone
  THEN NoCommand
  ELSE IF HasEntry(table, AxisKey(axis, value))
  THEN create_command_from_name(table[AxisKey(axis, value)])
  ELSE IF axis = 0 \/ axis = 1
  THEN IF value > AxisDeadzone
       THEN VideoChannelCommand(1)
       ELSE IF value < -AxisDeadzone
       THEN VideoChannelCommand(-1)
       ELSE NoCommand
  ELSE NoCommand

(* `if command: commands.append(command)' *)
AppendCommands(commands) == SelectSeq(commands, LAMBDA c : c # NoCommand)

(* InputHandler.get_commands of the keyboard handler, which drains the     *)
(* event queue                                                             *)
InputHandler_get_commands(table, event) ==
  IF event = None THEN <<>> ELSE AppendCommands(<<map_input(table, event)>>)

(* JoystickInputHandler.get_axis_commands *)
get_axis_commands(table, axes) ==
  AppendCommands(<<map_axis_to_command(table, 0, axes[1]),
                   map_axis_to_command(table, 1, axes[2])>>)

(* CompositeInputHandler.get_commands *)
CompositeInputHandler_get_commands(table, event, axes) ==
  InputHandler_get_commands(table, event) \o get_axis_commands(table, axes)

(* the loop and the module state of the web interface:                     *)
(*   pc        the part of the loop body that runs next: "poll",           *)
(*             "commands", "update", "view"; "stopped" when the loop has   *)
(*             ended, "crashed" when an exception has left run             *)
(*   commands  the commands of this pass not yet processed                 *)
(*   obtained, checked, accepted, executes, exits                          *)
(*             of this pass: the commands obtained, those handed to        *)
(*             handle_command, those it accepted, the calls of execute,    *)
(*             the ExitCommands                                            *)
(*   axes, held, axis_command                                              *)
(*             the stick at the last poll, for how many polls in a row     *)
(*             axis 0 has been beyond the deadzone on one side (2 stands   *)
(*             for two or more), whether the poll made a command of it     *)
(*   input_mappings   the table of the handlers' mappers                   *)
(*   file, config_changed_time, last_config_update   web/app.py            *)
(*   noticed, loaded  has_config_changed has returned True; the table      *)
(*                    read then                                            *)
Run_init ==
  [pc |-> "poll", running |-> TRUE, commands |-> <<>>,
   obtained |-> 0, checked |-> 0, accepted |-> 0, executes |-> 0, exits |-> 0,
   axes |-> <<0, 0>>, held |-> 0, axis_command |-> FALSE,
   input_mappings |-> DefaultTable, input_config |-> DefaultTable,
   file |-> DefaultTable, config_changed_time |-> 0, last_config_update |-> 0,
   last_config_check |-> StartTime, noticed |-> FALSE, loaded |-> EmptyTable,
   saves |-> 0, error |-> None]

(* the head of the loop body: the QUIT events, input_handler.update() and  *)
(* input_handler.get_commands()                                            *)
Run_get_commands(l, quit, event, axes) ==
  LET commands == CompositeInputHandler_get_commands(l.input_mappings, event, axes)
      beyond == Abs(axes[1]) > AxisDeadzone
      same_side == /\ beyond /\ Abs(l.axes[1]) > AxisDeadzone
                   /\ (axes[1] > 0) = (l.axes[1] > 0)
  IN [l EXCEPT !.pc = "commands", !.running = l.running /\ ~quit,
               !.commands = commands, !.obtained = Len(commands),
               !.checked = 0, !.accepted = 0, !.executes = 0, !.exits = 0,
               !.axes = axes,
               !.held = IF same_side THEN (IF l.held >= 1 THEN 2 ELSE 1)
                        ELSE IF beyond THEN 1 ELSE 0,
               !.axis_command =
                  map_axis_to_command(l.input_mappings, 0, axes[1]).type = "channel"]

(* `for command in commands:' has nothing left *)
wrong_commands_done(l) == Len(l.commands) <= 1

commands_done(l) == l.commands = <<>>

(* the handlers have no update_mappings: the call raises AttributeError *)
InputHandler_update_mappings(l, new_mappings) ==
  [l EXCEPT !.pc = "crashed", !.error = "AttributeError"]

(* web/app.py has_config_changed: [l, changed] *)
has_config_changed(l) ==
  IF l.config_changed_time > l.last_config_update
  THEN [l |-> [l EXCEPT !.last_config_update = l.config_changed_time], changed |-> TRUE]
  ELSE [l |-> l, changed |-> FALSE]

(* web/app.py get_current_mappings: {} when the file cannot be read *)
get_current_mappings(l, readable) == IF readable THEN l.file ELSE EmptyTable

(* the raw events left in the queue and the check for a changed            *)
(* configuration                                                           *)
Run_check_config(l, t, late_escape, readable) ==
  LET l1 == [l EXCEPT !.running = l.running /\ ~late_escape, !.pc = "update"]
  IN IF t - l1.last_config_check > ConfigCheckInterval
     THEN LET r == has_config_changed([l1 EXCEPT !.last_config_check = t])
          IN IF r.changed
             THEN LET new_mappings == get_current_mappings(r.l, readable)
                      l2 == [r.l EXCEPT !.noticed = TRUE, !.loaded = new_mappings]
                  IN IF NonEmptyTable(new_mappings)
                     THEN InputHandler_update_mappings(
                            [l2 EXCEPT !.input_config = new_mappings], new_mappings)
                     ELSE l2
             ELSE r.l
     ELSE l1

(* web/app.py save_mappings *)
save_mappings(l, mappings, t, written) ==
  IF written
  THEN [l EXCEPT !.file = mappings, !.config_changed_time = t, !.saves = l.saves + 1]
  ELSE l

(* --------- save_mappings beside the configuration check, by steps ------ *)
(* the file the application was started with (main.py:84) and another one  *)
(* the web interface can be asked to save to                               *)
keymapping_name == "development.json"
ConfigNames == {"development.json", "x-arcade-kb.json"}

(* a file of configs/keymappings: the save that wrote it last (0: as       *)
(* installed), what it holds, and whether json.load can read it; between    *)
(* open(path, "w") and the end of json.dump it cannot                      *)
InstalledFile == [save |-> 0, mappings |-> DefaultTable, complete |-> TRUE]

(* Readings of time.time() are kept by their order: clock counts the       *)
(* readings stored in config_changed_time, every save reads a later time   *)
(* than the save before it.                                                *)
(*   wpc   where save_mappings stands: "idle", "opened" (the file is       *)
(*         truncated), "dumped" (written and closed, not yet stamped)      *)
(*   mpc   where the loop stands in its configuration check: "loop",       *)
(*         "changed" (the comparison of has_config_changed was true),      *)
(*         "stored" (it has returned True), "loaded" (the file is read and *)
(*         new_mappings is not empty), "crashed"                           *)
(*   due   config_check_interval has passed since last_config_check        *)
(*   started, completed   the saves begun, the last save that returned     *)
(*   seen      the last save completed when the poll returned True         *)
(*   followed  the latest save k such that a poll made after k completed   *)
(*             returned True and its reload read the whole content of k or *)
(*             of a later save                                             *)
(*   trues     the polls that returned True since the web thread last      *)
(*             took a step of a save                                       *)
Sync_init ==
  [files |-> [c \in ConfigNames |-> InstalledFile],
   wpc |-> "idle", config_name |-> keymapping_name,
   clock |-> 0, config_changed_time |-> 0, last_config_update |-> 0,
   mpc |-> "loop", due |-> FALSE, new_mappings |-> EmptyTable,
   input_config |-> DefaultTable,
   started |-> 0, completed |-> 0, seen |-> 0, followed |-> 0, trues |-> 0]

Greater(a, b) == IF a > b THEN a ELSE b
Lesser(a, b) == IF a < b THEN a ELSE b

(* save_mappings: open(config_path, "w") *)
save_mappings_open(y, mappings, config_name) ==
  [y EXCEPT !.files[config_name] =
               [save |-> y.started + 1, mappings |-> mappings, complete |-> FALSE],
            !.wpc = "opened", !.config_name = config_name,
            !.started = y.started + 1, !.trues = 0]

(* save_mappings: json.dump(mappings, f, indent=2) and the end of `with' *)
save_mappings_dump(y) ==
  [y EXCEPT !.files[y.config_name].complete = TRUE, !.wpc = "dumped", !.trues = 0]

(* save_mappings: config_changed_time = time.time(); return True *)
save_mappings_stamp(y) ==
  [y EXCEPT !.clock = y.clock + 1, !.config_changed_time = y.clock + 1,
            !.completed = y.started, !.wpc = "idle", !.trues = 0]

(* main.py:321-323 and the comparison of has_config_changed *)
Sync_compare(y) ==
  IF y.config_changed_time > y.last_config_update
  THEN [y EXCEPT !.due = FALSE, !.mpc = "changed"]
  ELSE [y EXCEPT !.due = FALSE]

(* has_config_changed: last_config_update = config_changed_time; return True *)
Sync_store(y) ==
  [y EXCEPT !.last_config_update = y.config_changed_time, !.mpc = "stored",
            !.seen = y.completed, !.trues = y.trues + 1]

(* new_mappings = get_current_mappings(self.keymapping_name) *)
Sync_reload(y) ==
  LET f == y.files[keymapping_name]
      new_mappings == IF f.complete THEN f.mappings ELSE EmptyTable
  IN [y EXCEPT !.new_mappings = new_mappings,
               !.followed = IF f.complete
                            THEN Greater(y.followed, Lesser(f.save, y.seen))
                            ELSE y.followed,
               !.mpc = IF NonEmptyTable(new_mappings) THEN "loaded" ELSE "loop"]

(* self.input_config['input_mappings'] = new_mappings and the call of      *)
(* input_handler.update_mappings, which the handlers do not have           *)
Sync_install(y) ==
  [y EXCEPT !.input_config = y.new_mappings, !.mpc = "crashed"]

(* ----------------------------- RPiVideoPlayer -------------------------- *)
(* what play_video finds under videos_dir for the file it is given         *)
RpiFileStates == {"video", "placeholder", "missing"}

(* the omxplayer processes are numbered as they are started; 0 is None     *)
(*   lock      who holds self.lock, a threading.Lock: "free", "main"; the  *)
(*             monitor threads take and release it within one step         *)
(*   pc        where the calling thread stands: "idle"; "play_acquire"     *)
(*             before `with self.lock' of play_video; "play_stop" inside   *)
(*             the self.stop() that play_video calls, before its `with     *)
(*             self.lock'; "play_body" after the `if self.is_playing'      *)
(*             statement; "stop" before `with self.lock' of a stop() the   *)
(*             caller made itself                                          *)
(*   alive     the processes that have not ended                           *)
(*   monitor   for each process started, where its _monitor_playback       *)
(*             thread stands: "none", "start", "wait", "lock", "done";     *)
(*             target is the process it waits for                          *)
(*   result    what the last call returned, None while none has            *)
Rpi_init ==
  [lock |-> "free", pc |-> "idle", file_state |-> "missing",
   current_process |-> 0, is_playing |-> FALSE, video_ended |-> FALSE, paused |-> FALSE,
   video_surface |-> FALSE,
   started |-> 0, alive |-> {}, monitor |-> <<>>, target |-> <<>>,
   calls |-> 0, result |-> None]

(* play_video: `with self.lock:' and `if self.is_playing: self.stop()' *)
Rpi_play_video_locked(r) ==
  [r EXCEPT !.lock = "main", !.pc = IF r.is_playing THEN "play_stop" ELSE "play_body"]

(* play_video from video_path on, to the end of `with self.lock' *)
Rpi_play_video_body(r) ==
  CASE r.file_state = "placeholder" ->
         [r EXCEPT !.video_surface = TRUE, !.lock = "free", !.pc = "idle", !.result = TRUE]
    [] r.file_state = "missing" ->
         [r EXCEPT !.lock = "free", !.pc = "idle", !.result = FALSE]
    [] OTHER ->
         [r EXCEPT !.video_ended = FALSE, !.current_process = r.started + 1,
                   !.started = r.started + 1, !.alive = r.alive \cup {r.started + 1},
                   !.is_playing = TRUE, !.paused = FALSE,
                   !.monitor = Append(r.monitor, "start"), !.target = Append(r.target, 0),
                   !.lock = "free", !.pc = "idle", !.result = TRUE]

(* stop, from `with self.lock' to its end; a stop that play_video called   *)
(* returns into play_video, which holds the lock it took                   *)
Rpi_stop_locked(r) ==
  LET r1 == IF r.current_process # 0
            THEN [r EXCEPT !.alive = r.alive \ {r.current_process}, !.current_process = 0,
                           !.is_playing = FALSE, !.video_ended = TRUE]
            ELSE r
  IN IF r.pc = "play_stop"
     THEN [r1 EXCEPT !.pc = "play_body"]
     ELSE [r1 EXCEPT !.pc = "idle", !.result = None]

(* _monitor_playback: `if self.current_process:' *)
Rpi_monitor_start(r, m) ==
  IF r.current_process # 0
  THEN [r EXCEPT !.monitor[m] = "wait", !.target[m] = r.current_process]
  ELSE [r EXCEPT !.monitor[m] = "done"]

(* _monitor_playback: self.current_process.wait() has returned *)
Rpi_monitor_waited(r, m) == [r EXCEPT !.monitor[m] = "lock"]

(* _monitor_playback: `with self.lock:' to the end *)
Rpi_monitor_locked(r, m) ==
  IF r.is_playing
  THEN [r EXCEPT !.monitor[m] = "done", !.is_playing = FALSE, !.video_ended = TRUE]
  ELSE [r EXCEPT !.monitor[m] = "done"]

(* ------------------ InputMapper.map_event as a function ---------------- *)
(* the keys a table can hold: two keyboard keys, a joystick button         *)
(* ('button', 0, 0) and a hat direction ('hat', 0, 'right')                *)
TranslateKeys == {"K_a", "K_ESCAPE", "button0", "hat_right"}

TranslateNames == {"channel_next", "channel_prev", "pause", "exit", "ball", "video_ball"}

(* a table: each key has a command name or no entry (None) *)
TranslateTables == [TranslateKeys -> TranslateNames \cup {None}]

(* pygame events: key-down and key-up, button-down, hat motion *)
TranslateEvents ==
  [type : {"KEYDOWN"}, key : {"K_a", "K_ESCAPE", "K_z"}, value : {<<0, 0>>}]
    \cup [type : {"KEYUP"}, key : {"K_a"}, value : {<<0, 0>>}]
    \cup [type : {"JOYBUTTONDOWN"}, key : {"button0", "button1"}, value : {<<0, 0>>}]
    \cup [type : {"JOYHATMOTION"}, key : {None},
          value : {<<1, 0>>, <<-1, 0>>, <<0, 1>>, <<0, -1>>, <<0, 0>>, <<1, 1>>}]

(* InputMapper._map_key_event with the table looked at before the ESC key *)
wrong_map_key_event(table, key) ==
  IF HasEntry(table, key)
  THEN create_command_from_name(table[key])
  ELSE IF key = "K_ESCAPE"
  THEN ExitCommand
  ELSE NoCommand

(* InputMapper._map_key_event *)
map_key_event(table, key) ==
  IF key = "K_ESCAPE"
  THEN ExitCommand
  ELSE IF HasEntry(table, key)
  THEN create_command_from_name(table[key])
  ELSE NoCommand

(* InputMapper._map_joystick_button_event; button is ('button', joy, n) *)
map_joystick_button_event(table, button) ==
  IF HasEntry(table, button)
  THEN create_command_from_name(table[button])
  ELSE NoCommand

(* the direction of a hat value, x before y *)
HatDirection(hat_value) ==
  IF hat_value[1] > 0 THEN "right"
  ELSE IF hat_value[1] < 0 THEN "left"
  ELSE IF hat_value[2] > 0 THEN "up"
  ELSE IF hat_value[2] < 0 THEN "down"
  ELSE None

(* the key ('hat', joy_id, direction) *)
HatKey(direction) ==
  CASE direction = "right" -> "hat_right"
    [] direction = "left" -> "hat_left"
    [] direction = "up" -> "hat_up"
    [] direction = "down" -> "hat_down"

(* InputMapper._map_joystick_hat_event *)
map_joystick_hat_event(table, hat_value) ==
  LET direction == HatDirection(hat_value) IN
  IF direction # None /\ HasEntry(table, HatKey(direction))
  THEN create_command_from_name(table[HatKey(direction)])
  ELSE NoCommand

(* InputMapper.map_event *)
map_event(table, event) ==
  CASE event.type = "KEYDOWN" -> map_key_event(table, event.key)
    [] event.type = "JOYBUTTONDOWN" -> map_joystick_button_event(table, event.key)
    [] event.type = "JOYHATMOTION" -> map_joystick_hat_event(table, event.value)
    [] OTHER -> NoCommand

(* one call of map_event: the mapper's table, the event given and the      *)
(* command returned                                                        *)
Translate_init ==
  [table |-> [k \in TranslateKeys |-> None],
   event |-> [type |-> "none", key |-> None, value |-> <<0, 0>>],
   result |-> NoCommand, called |-> FALSE]

(* ---------------- the input handlers and their composite --------------- *)
(* axis values are counted in tenths: 0.1 is the edge of the composite's   *)
(* dead zone                                                               *)
CompositeDeadzone == 1
AxisValues == {0, 1, 5, -7}

(* the joystick of the model has one axis: joystick.get_numaxes() *)
NumAxes == 1

HandlerKinds == {"keyboard", "joystick", "mock"}

(* pygame events with the attributes the handlers read; joy is -1 for an   *)
(* event that has no such attribute                                        *)
KeyDown(key) == [type |-> "KEYDOWN", key |-> key, value |-> <<0, 0>>, joy |-> -1]
JoyButtonDown(joy) ==
  [type |-> "JOYBUTTONDOWN", key |-> IF joy = 0 THEN "button0" ELSE "button0_of_1",
   value |-> <<0, 0>>, joy |-> joy]
JoyAxisMotion == [type |-> "JOYAXISMOTION", key |-> None, value |-> <<0, 0>>, joy |-> -1]

(* what pygame has in its queue when a handler asks for the events *)
QueueEvents == {KeyDown("K_a"), JoyButtonDown(0), JoyButtonDown(1)}

(* the keys a test presses on a mock handler *)
MockKeys == {"K_a", "K_z"}

JoystickEventTypes == {"JOYBUTTONDOWN", "JOYBUTTONUP", "JOYAXISMOTION", "JOYHATMOTION"}

(* the table the keyboard and the joystick handler are made with *)
HandlerTable ==
  [k \in TranslateKeys |-> CASE k = "K_a" -> "ball"
                             [] k = "button0" -> "channel_next"
                             [] OTHER -> None]

(* a handler: its class, its mapper's table, the events a mock holds, the  *)
(* joystick handler's active flag (disconnected: update has cleared it),   *)
(* and the axis value a mock was given                                     *)
KeyboardInputHandler ==
  [kind |-> "keyboard", table |-> HandlerTable, events |-> <<>>, active |-> TRUE,
   disconnected |-> FALSE, axis |-> 0]

(* JoystickInputHandler(0, input_mappings); connected: get_count() > 0 *)
JoystickInputHandler(connected) ==
  [kind |-> "joystick", table |-> HandlerTable, events |-> <<>>, active |-> connected,
   disconnected |-> FALSE, axis |-> 0]

MockInputHandler ==
  [kind |-> "mock", table |-> [k \in TranslateKeys |-> None], events |-> <<>>,
   active |-> TRUE, disconnected |-> FALSE, axis |-> 0]

(* get_events of a handler, with the pygame queue: [h, queue, events] *)
Handler_get_events(h, queue) ==
  CASE h.kind = "keyboard" -> [h |-> h, queue |-> <<>>, events |-> queue]
    [] h.kind = "joystick" ->
         [h |-> h, queue |-> <<>>,
          events |-> SelectSeq(queue, LAMBDA e : e.type \in JoystickEventTypes /\ e.joy = 0)]
    [] h.kind = "mock" -> [h |-> [h EXCEPT !.events = <<>>], queue |-> queue, events |-> h.events]

(* InputHandler.get_commands: [h, queue, commands] *)
Handler_get_commands(h, queue) ==
  LET r == Handler_get_events(h, queue) IN
  [h |-> r.h, queue |-> r.queue,
   commands |-> AppendCommands([i \in 1..Len(r.events) |-> map_event(h.table, r.events[i])])]

(* get_axis_commands: the joystick handler's, and the base class's [];     *)
(* device is what joystick.get_axis returns                                *)
Handler_get_axis_commands(h, device) ==
  IF h.kind = "joystick"
  THEN IF ~h.active
       THEN <<>>
       ELSE AppendCommands([axis \in 1..NumAxes |->
                              map_axis_to_command(h.table, axis - 1, device)])
  ELSE <<>>

(* get_axis_value(axis) of a handler *)
Handler_get_axis_value(h, axis, device) ==
  CASE h.kind = "keyboard" -> 0
    [] h.kind = "joystick" ->
         IF ~h.active THEN 0
         ELSE IF 0 <= axis /\ axis < NumAxes THEN device ELSE 0
    [] h.kind = "mock" -> IF axis = 0 THEN h.axis ELSE 0

(* update() of a handler; connected: pygame.joystick.get_count() > 0 *)
Handler_update(h, connected) ==
  IF h.kind = "joystick" /\ h.active /\ ~connected
  THEN [h EXCEPT !.active = FALSE, !.disconnected = TRUE]
  ELSE h

(* what a member handed back in the last call of the composite *)
NoMember == [events |-> <<>>, commands |-> <<>>, axis_commands |-> <<>>, axis_value |-> 0]

(* the composite, whether the joystick is plugged in, and the last call:   *)
(*   op       the method called last; queue, device: what pygame's queue   *)
(*            held and what the stick read when it was called (queue: what *)
(*            is left of it); events, commands, axis_value what the call   *)
(*            returned; member[i] what handler i returned to it            *)
Composite_init ==
  [handlers |-> <<>>, connected |-> TRUE, op |-> "none", queue |-> <<>>, device |-> 0,
   events |-> <<>>, commands |-> <<>>, axis_value |-> 0, member |-> <<>>]

SetHandler(c, i, h) == [c EXCEPT !.handlers[i] = h]

(* CompositeInputHandler.get_events with the members' events put in front  *)
(* of the ones collected so far                                            *)
RECURSIVE wrong_Composite_get_events(_, _)
wrong_Composite_get_events(c, i) ==
  IF i > Len(c.handlers)
  THEN c
  ELSE LET r == Handler_get_events(c.handlers[i], c.queue) IN
       wrong_Composite_get_events(
         [SetHandler(c, i, r.h) EXCEPT
            !.queue = r.queue, !.events = r.events \o c.events,
            !.member = Append(c.member, [NoMember EXCEPT !.events = r.events])],
         i + 1)

(* CompositeInputHandler.get_events, from handler i on *)
RECURSIVE Composite_get_events(_, _)
Composite_get_events(c, i) ==
  IF i > Len(c.handlers)
  THEN c
  ELSE LET r == Handler_get_events(c.handlers[i], c.queue) IN
       Composite_get_events(
         [SetHandler(c, i, r.h) EXCEPT
            !.queue = r.queue, !.events = c.events \o r.events,
            !.member = Append(c.member, [NoMember EXCEPT !.events = r.events])],
         i + 1)

(* CompositeInputHandler.get_commands, from handler i on *)
RECURSIVE Composite_get_commands(_, _)
Composite_get_commands(c, i) ==
  IF i > Len(c.handlers)
  THEN c
  ELSE LET r == Handler_get_commands(c.handlers[i], c.queue)
           axis_commands == Handler_get_axis_commands(r.h, c.device)
       IN Composite_get_commands(
            [SetHandler(c, i, r.h) EXCEPT
               !.queue = r.queue, !.commands = c.commands \o r.commands \o axis_commands,
               !.member = Append(c.member, [NoMember EXCEPT !.commands = r.commands,
                                                            !.axis_commands = axis_commands])],
            i + 1)

(* CompositeInputHandler.get_axis_value adding the members' values up *)
RECURSIVE wrong_Composite_get_axis_value(_, _, _)
wrong_Composite_get_axis_value(c, axis, i) ==
  IF i > Len(c.handlers)
  THEN c
  ELSE LET value == Handler_get_axis_value(c.handlers[i], axis, c.device)
           c1 == [c EXCEPT !.member = Append(c.member, [NoMember EXCEPT !.axis_value = value])]
       IN IF Abs(value) > CompositeDeadzone
          THEN wrong_Composite_get_axis_value(
                 [c1 EXCEPT !.axis_value = c.axis_value + value], axis, i + 1)
          ELSE wrong_Composite_get_axis_value(c1, axis, i + 1)

(* CompositeInputHandler.get_axis_value(axis), from handler i on *)
RECURSIVE Composite_get_axis_value(_, _, _)
Composite_get_axis_value(c, axis, i) ==
  IF i > Len(c.handlers)
  THEN [c EXCEPT !.axis_value = 0]
  ELSE LET value == Handler_get_axis_value(c.handlers[i], axis, c.device)
           c1 == [c EXCEPT !.member = Append(c.member, [NoMember EXCEPT !.axis_value = value])]
       IN IF Abs(value) > CompositeDeadzone
          THEN [c1 EXCEPT !.axis_value = value]
          ELSE Composite_get_axis_value(c1, axis, i + 1)

(* CompositeInputHandler.update *)
Composite_update(c) ==
  [c EXCEPT !.handlers = [i \in 1..Len(c.handlers) |-> Handler_update(c.handlers[i], c.connected)]]

(* a call starts with what the last one returned forgotten *)
Called(c, op, queue, device) ==
  [c EXCEPT !.op = op, !.queue = queue, !.device = device,
            !.events = <<>>, !.commands = <<>>, !.axis_value = 0, !.member = <<>>]

(* --------------------------- load_keymapping --------------------------- *)
(* the key names a mapping file can use: a key, an unknown key, a gamepad  *)
(* button, a gamepad hat direction, a gamepad name without its number      *)
RawKeyNames == {"K_a", "K_zzz", "GAMEPAD1_BUTTON1", "GAMEPAD1_RIGHT", "GAMEPAD1_BUTTON"}

RawCommands == {"ball", "channel_next"}

(* a JSON object: each key name has a command or is not there (None) *)
RawMappings == [RawKeyNames -> RawCommands \cup {None}]

(* what find_config_file and open find: no file, a file that cannot be     *)
(* opened, text that is not JSON, bytes that are not text, JSON that is    *)
(* not an object (a list), a JSON object                                   *)
KeymappingFiles ==
  [kind : {"absent", "unreadable", "invalid_json", "not_text", "json_list"},
   raw : {[k \in RawKeyNames |-> None]}]
    \cup [kind : {"object"}, raw : RawMappings]

(* get_pygame_key_constant(key_name) *)
get_pygame_key_constant(key_name) ==
  IF key_name \notin {"K_a", "K_zzz"}
  THEN None
  ELSE IF key_name = "K_a" THEN "K_a" ELSE None

(* get_gamepad_constant(button_name) *)
get_gamepad_constant(button_name) ==
  CASE button_name = "GAMEPAD1_BUTTON1" -> "button0"
    [] button_name = "GAMEPAD1_RIGHT" -> "hat_right"
    [] OTHER -> None

(* the constant a key name of the file stands for *)
KeyConstant(key_name) ==
  IF key_name \in {"GAMEPAD1_BUTTON1", "GAMEPAD1_RIGHT", "GAMEPAD1_BUTTON"}
  THEN get_gamepad_constant(key_name)
  ELSE get_pygame_key_constant(key_name)

(* create_default_keymapping() *)
create_default_keymapping ==
  [k \in {"K_0", "K_1", "K_2", "K_3", "K_4", "K_5", "K_6", "K_7", "K_8", "K_9"} |->
     CASE k = "K_0" -> "play" [] k = "K_1" -> "rope" [] k = "K_2" -> "ball"
       [] k = "K_3" -> "hugs" [] k = "K_4" -> "outside" [] k = "K_5" -> "walk"
       [] k = "K_6" -> "water" [] k = "K_7" -> "park" [] k = "K_8" -> "toy"
       [] k = "K_9" -> "bed"]

(* the loop over raw_mappings.items() *)
ProcessMappings(raw) ==
  LET present == {k \in DOMAIN raw : raw[k] # None /\ KeyConstant(k) # None}
  IN [c \in {KeyConstant(k) : k \in present} |->
        raw[CHOOSE k \in present : KeyConstant(k) = c]]

(* load_keymapping(config_name): [result, raised]; the except clause       *)
(* catches json.JSONDecodeError and IOError                                *)
load_keymapping(file) ==
  CASE file.kind = "absent" -> [result |-> create_default_keymapping, raised |-> FALSE]
    [] file.kind \in {"unreadable", "invalid_json"} ->
         [result |-> create_default_keymapping, raised |-> FALSE]
    [] file.kind \in {"not_text", "json_list"} -> [result |-> <<>>, raised |-> TRUE]
    [] file.kind = "object" -> [result |-> ProcessMappings(file.raw), raised |-> FALSE]

Keymapping_init ==
  [file |-> [kind |-> "absent", raw |-> [k \in RawKeyNames |-> None]],
   result |-> <<>>, raised |-> FALSE, called |-> FALSE]

(* ------------------- the simplified AppState ---------------------------- *)
(* core/app_state_simple.py: the state simple_main.py drives. Its video   *)
(* player is the environment: play_video answers whether the clip could be *)
(* started, update answers a frame and whether the clip is over.           *)
SimpleFeedbackDuration == 20

SimpleContent == {"ball", "water"}

(* the commands handle_command can be handed *)
SimpleCommands ==
  {[kind |-> "exit", name |-> None], [kind |-> "other", name |-> None]}
    \cup {[kind |-> "content", name |-> n] : n \in SimpleContent}

(* the frame times simple_main.py passes to update *)
SimpleDeltas == {5, 15}

White == <<255, 255, 255>>

Red == <<255, 0, 0>>

(* feedback_text and feedback_surface when nothing is shown *)
NoText == [msg |-> None, id |-> None]

NoSurface == [text |-> NoText, color |-> <<>>]

NoSimpleCall ==
  [op |-> "none", command |-> [kind |-> "other", name |-> None], tried |-> FALSE,
   played |-> FALSE]

Simple_init ==
  [mode |-> "WAITING", current_video |-> None, video_frame |-> FALSE,
   video_complete |-> FALSE, feedback_text |-> NoText, feedback_surface |-> NoSurface,
   feedback_time |-> 0, call |-> NoSimpleCall]

Simple_show_feedback(s, text, color) ==
  [s EXCEPT !.feedback_text = text,
            !.feedback_surface = [text |-> text, color |-> color],
            !.feedback_time = 0]

(* played: what video_player.play_video(content_id + ".mp4") returns *)
Simple_play_video(s, content_id, played) ==
  LET s1 == [s EXCEPT !.mode = "PLAYING", !.current_video = content_id] IN
  IF played
    THEN s1
    ELSE [Simple_show_feedback(s1, [msg |-> "Error", id |-> content_id], Red)
            EXCEPT !.mode = "WAITING"]

wrong_Simple_handle_command(s, command, played) ==
  LET called(t, tried) ==
        [t EXCEPT !.call = [op |-> "handle_command", command |-> command,
                            tried |-> tried, played |-> tried /\ played]]
  IN
  IF command.kind = "exit" THEN called([s EXCEPT !.mode = "EXITING"], FALSE)
  ELSE IF command.kind = "content"
    THEN called(Simple_show_feedback(Simple_play_video(s, command.name, played),
                                     [msg |-> "Playing", id |-> command.name], White),
                TRUE)
  ELSE called(s, FALSE)

Simple_handle_command(s, command, played) ==
  LET called(t, tried) ==
        [t EXCEPT !.call = [op |-> "handle_command", command |-> command,
                            tried |-> tried, played |-> tried /\ played]]
  IN
  IF command.kind = "exit" THEN called([s EXCEPT !.mode = "EXITING"], FALSE)
  ELSE IF s.mode = "PLAYING" THEN called(s, FALSE)
  ELSE IF command.kind = "content"
    THEN called(Simple_show_feedback(Simple_play_video(s, command.name, played),
                                     [msg |-> "Playing", id |-> command.name], White),
                TRUE)
  ELSE called(s, FALSE)

(* frame, complete: what video_player.update() returns *)
Simple_update(s, delta_time, frame, complete) ==
  LET timed == IF s.feedback_text # NoText
                 THEN LET t == s.feedback_time + delta_time IN
                      IF t >= SimpleFeedbackDuration
                        THEN [s EXCEPT !.feedback_time = t, !.feedback_text = NoText,
                                       !.feedback_surface = NoSurface]
                        ELSE [s EXCEPT !.feedback_time = t]
                 ELSE s
      played == IF timed.mode = "PLAYING"
                  THEN [timed EXCEPT !.video_frame = frame, !.video_complete = complete,
                                     !.mode = IF complete THEN "WAITING" ELSE "PLAYING"]
                  ELSE timed
  IN [played EXCEPT !.call = [NoSimpleCall EXCEPT !.op = "update"]]

(* ----------------------------- TTSHandler ------------------------------ *)
(* core/tts_handler.py: speak runs on the caller's thread and starts a     *)
(* daemon thread for _speak_thread; the thread sets the speaking flag when *)
(* it is first scheduled and clears it when the speech is over. A thread   *)
(* that was started and has not run yet is "started", one inside the       *)
(* speech is "speaking", one that has returned is "done".                  *)
SpeakTexts == {"", "ball", "treat"}

NoSpeakCall == [op |-> "none", text |-> "", busy |-> FALSE, thread |-> FALSE]

TTS_init == [speaking |-> FALSE, threads |-> <<>>, call |-> NoSpeakCall]

(* the speech threads that were started and have not finished *)
InProgress(t) ==
  {i \in DOMAIN t.threads : t.threads[i].pc \in {"started", "speaking"}}

TTS_speak(t, text) ==
  LET called(u, thread) ==
        [u EXCEPT !.call = [op |-> "speak", text |-> text,
                            busy |-> InProgress(t) # {}, thread |-> thread]]
  IN
  IF text = "" THEN called(t, FALSE)
  ELSE IF t.speaking THEN called(t, FALSE)
  ELSE called([t EXCEPT !.threads = Append(@, [text |-> text, pc |-> "started"])], TRUE)

(* _speak_thread up to the speech: self.speaking = True *)
TTS_speak_thread_begin(t, i) ==
  [t EXCEPT !.speaking = TRUE, !.threads[i].pc = "speaking",
            !.call = [NoSpeakCall EXCEPT !.op = "begin"]]

(* _speak_thread after the speech, or after its failure: self.speaking = False *)
TTS_speak_thread_end(t, i) ==
  [t EXCEPT !.speaking = FALSE, !.threads[i].pc = "done",
            !.call = [NoSpeakCall EXCEPT !.op = "end"]]

(* ------------------- the VideoPlayer driven on its own ------------------ *)
(* ui/video_player.py called directly, as its unit tests call it. The      *)
(* record `call' keeps what the last call was given, the player it found   *)
(* and what it returned.                                                   *)
PlayerFiles == {"ball.mp4", "water.mp4"}

(* what play_video finds under videos_dir for the file *)
PlayerFileStates == {"placeholder", "video", "corrupt", "missing"}

NoPlayerCall ==
  [op |-> "none", t |-> 0, before |-> VideoPlayer_init, video_file |-> None,
   fstat |-> "missing", frame |-> TRUE, ok |-> FALSE, surface |-> FALSE,
   is_complete |-> FALSE, raised |-> FALSE]

Player_init == [p |-> VideoPlayer_init, call |-> NoPlayerCall, position_at_pause |-> 0]

(* what an observer notes when the player becomes paused at time t: the    *)
(* playback position time.time() - start_time of that moment; q is the     *)
(* player after the call                                                   *)
PositionAtPause(pl, q, t) ==
  IF q.paused /\ ~pl.p.paused THEN t - q.start_time ELSE pl.position_at_pause

Player_play_video(pl, video_file, t, fstat, frame) ==
  LET r == VideoPlayer_play_video(pl.p, video_file, t, fstat, frame) IN
  [p |-> r.p,
   call |-> [NoPlayerCall EXCEPT !.op = "play_video", !.t = t, !.before = pl.p,
                                 !.video_file = video_file, !.fstat = fstat,
                                 !.frame = frame, !.ok = r.ok],
   position_at_pause |-> PositionAtPause(pl, r.p, t)]

Player_update(pl, t, frame) ==
  LET r == VideoPlayer_update(pl.p, t, frame) IN
  [p |-> r.p,
   call |-> [NoPlayerCall EXCEPT !.op = "update", !.t = t, !.before = pl.p,
                                 !.frame = frame, !.surface = r.surface,
                                 !.is_complete = r.is_complete, !.raised = r.raised],
   position_at_pause |-> PositionAtPause(pl, r.p, t)]

Player_toggle_pause(pl, t) ==
  [p |-> VideoPlayer_toggle_pause(pl.p, t),
   call |-> [NoPlayerCall EXCEPT !.op = "toggle_pause", !.t = t, !.before = pl.p],
   position_at_pause |-> PositionAtPause(pl, VideoPlayer_toggle_pause(pl.p, t), t)]

Player_pause(pl, t) ==
  [p |-> VideoPlayer_pause(pl.p, t),
   call |-> [NoPlayerCall EXCEPT !.op = "pause", !.t = t, !.before = pl.p],
   position_at_pause |-> PositionAtPause(pl, VideoPlayer_pause(pl.p, t), t)]

Player_resume(pl, t) ==
  [p |-> VideoPlayer_resume(pl.p, t),
   call |-> [NoPlayerCall EXCEPT !.op = "resume", !.t = t, !.before = pl.p],
   position_at_pause |-> pl.position_at_pause]

Player_stop(pl, t) ==
  [p |-> VideoPlayer_stop(pl.p),
   call |-> [NoPlayerCall EXCEPT !.op = "stop", !.t = t, !.before = pl.p],
   position_at_pause |-> pl.position_at_pause]

(* ------------------------------ the machine ---------------------------- *)
App(call) ==
  [mode |-> mode, input_state |-> input_state, feedback_state |-> feedback_state,
   content_state |-> content_state, video_player |-> video_player, log |-> call]

Install(a) ==
  /\ mode' = a.mode
  /\ input_state' = a.input_state
  /\ feedback_state' = a.feedback_state
  /\ content_state' = a.content_state
  /\ video_player' = a.video_player
  /\ last_call' = a.log

Init ==
  /\ now = StartTime
  /\ mode = "WAITING"
  /\ input_state = InputState_init
  /\ feedback_state = FeedbackState_init
  /\ content_state = ContentState_init
  /\ video_player = VideoPlayer_init
  /\ last_call = NoCall
  /\ legacy = Legacy_init
  /\ race = Race_init
  /\ loop = Run_init
  /\ trans = Translate_init
  /\ composite = Composite_init
  /\ keymap = Keymapping_init
  /\ simple = Simple_init
  /\ tts = TTS_init
  /\ player = Player_init
  /\ selected_image = None
  /\ sync = Sync_init
  /\ rpi = Rpi_init

(* time passes between two handlers; no handler has run at the new instant *)
Advance(steps, limit) ==
  /\ \E d \in steps : now + d <= limit /\ now' = now + d
  /\ last_call' = NoCall
  /\ UNCHANGED <<mode, input_state, feedback_state, content_state, video_player, others>>

Tick == Advance(Steps, MaxTime)

(* the inputs a command can consult; the others stay at their defaults:    *)
(* the player is asked only when videos/<name>.mp4 exists, the image is    *)
(* loaded only when no video has started, and a frame is decoded only for  *)
(* a file that is opened                                                   *)
EnvsOf(cmd) ==
  CASE cmd.type = "content" ->
         {e \in Envs :
            \/ /\ e.cwd = "video"
               /\ e.file \in {"placeholder", "missing"} => e.frame
               /\ e.file \in {"placeholder", "video"} => ~e.image
            \/ e.cwd # "video" /\ e.file = "missing" /\ e.frame}
    [] cmd.type = "channel" ->
         {e \in Envs : /\ e.cwd = "none" /\ ~e.image
                       /\ e.file \in {"placeholder", "missing"} => e.frame}
    [] OTHER -> {NoEnv}

(* AppState.handle_command(cmd), called by the main loop; a rejected       *)
(* command looks at nothing outside the program                            *)
HandleCommand ==
  \E cmd \in Commands :
    \E env \in IF is_input_allowed(input_state, now).allowed THEN EnvsOf(cmd) ELSE {NoEnv} :
      /\ Install(AppState_handle_command(
                   App([NoCall EXCEPT !.op = "handle_command", !.cmd = cmd]), cmd, now, env))
      /\ UNCHANGED <<now, others>>

(* AppState.update(delta_time), called by the main loop every frame *)
Update ==
  \E frame \in BOOLEAN :
    /\ Install(AppState_update(App([NoCall EXCEPT !.op = "update"]), now,
                               [NoEnv EXCEPT !.frame = frame]))
    /\ UNCHANGED <<now, others>>

(* the stick positions <<x, y>> that are tried: rest, each axis beyond the  *)
(* threshold either way, both at the threshold itself, both beyond it      *)
AxisSamples ==
  {<<0, 0>>, <<10, 0>>, <<-10, 0>>, <<0, 10>>, <<0, -10>>, <<5, 5>>, <<-10, 10>>}

(* AppState.handle_joystick(joystick); it looks outside the program only   *)
(* when it changes the channel                                             *)
HandleJoystick ==
  \E joystick \in BOOLEAN :
    \E axes \in IF joystick THEN AxisSamples ELSE {<<0, 0>>} :
      \E env \in IF /\ joystick /\ mode # "WAITING"
                     /\ is_input_allowed(input_state, now).allowed
                     /\ JoystickDirection(axes[1], axes[2]) # 0
                  THEN EnvsOf(VideoChannelCommand(1)) ELSE {NoEnv} :
        /\ Install(AppState_handle_joystick(
                     App([NoCall EXCEPT !.op = "handle_joystick",
                                        !.direction = IF joystick
                                                      THEN JoystickDirection(axes[1], axes[2])
                                                      ELSE 0]),
                     joystick, axes[1], axes[2], now, env))
        /\ UNCHANGED <<now, others>>

(* ViewStateGenerator.generate_view_state(app_state), called by the main   *)
(* loop every frame                                                        *)
GenerateViewState ==
  \E frame \in IF mode = "VIDEO" THEN BOOLEAN ELSE {TRUE} :
    /\ Install(generate_view_state(App([NoCall EXCEPT !.op = "generate_view_state"]), now,
                                   [NoEnv EXCEPT !.frame = frame]))
    /\ UNCHANGED <<now, others>>

Next == Tick \/ HandleCommand \/ Update

(* the application with the joystick handler and the view generation *)
FrameTick == Advance(Steps, MaxFrameTime)

NextFrame == FrameTick \/ HandleCommand \/ Update \/ HandleJoystick \/ GenerateViewState

SpecFrame == Init /\ [][NextFrame]_vars

(* ---------------- the image sub-state driven on its own ---------------- *)
Images == {ImageName[n] : n \in ContentNames}

ImageTick == Advance(ImageSteps, MaxImageTime)

(* image_content.set_image(image, display_time) *)
SetImage ==
  \E image \in Images :
    /\ content_state' =
         [content_state EXCEPT !.image_content =
            ImageContent_set_image(content_state.image_content, image, DEFAULT_DISPLAY_TIME, now)]
    /\ last_call' = [NoCall EXCEPT !.op = "set_image", !.played = image]
    /\ UNCHANGED <<now, mode, input_state, feedback_state, video_player, others>>

(* image_content.update(delta_time) *)
ImageUpdate ==
  /\ content_state' =
       [content_state EXCEPT !.image_content =
          ImageContent_update(content_state.image_content, now).ic]
  /\ last_call' = [NoCall EXCEPT !.op = "image_update"]
  /\ UNCHANGED <<now, mode, input_state, feedback_state, video_player, others>>

NextImage == ImageTick \/ SetImage \/ ImageUpdate

SpecImage == Init /\ [][NextImage]_vars

(* ------------------- the top-level main.py program --------------------- *)
LegacyTick ==
  /\ \E d \in ImageSteps : now + d <= MaxImageTime /\ now' = now + d
  /\ legacy' = [legacy EXCEPT !.call = "none"]
  /\ UNCHANGED <<appvars, race, loop, parts>>

(* a KEYDOWN event reaches handle_key_press *)
LegacyKeyPress ==
  \E key \in LegacyKeys, loaded \in BOOLEAN, played \in BOOLEAN :
    /\ key \notin DOMAIN LegacyKeyMappings => loaded
    /\ key \notin DOMAIN LegacyArrowKeyMappings => played
    /\ legacy' = [Legacy_handle_key_press(legacy, key, now, loaded, played) EXCEPT
                    !.call = "handle_key_press"]
    /\ UNCHANGED <<now, appvars, race, loop, parts>>

(* the loop displays the content *)
LegacyFrame ==
  /\ legacy' = [Legacy_frame(legacy, now) EXCEPT !.call = "frame"]
  /\ UNCHANGED <<now, appvars, race, loop, parts>>

NextLegacy == LegacyTick \/ LegacyKeyPress \/ LegacyFrame

SpecLegacy == Init /\ [][NextLegacy]_vars

(* ------------- the input mapper under a concurrent update -------------- *)
MaxUpdates == 2

(* map_event(event) is called: ESC returns at once, any other input goes   *)
(* to the membership test                                                  *)
MapEventCall ==
  \E input \in MappedInputs \cup {"K_ESCAPE"} :
    /\ race.pc \in {"idle", "done"}
    /\ race' = IF input = "K_ESCAPE"
               THEN [race EXCEPT !.pc = "done", !.event = input, !.found = FALSE,
                                 !.result = ExitCommand, !.raised = FALSE,
                                 !.seen = {race.input_mappings}]
               ELSE [race EXCEPT !.pc = "called", !.event = input, !.found = FALSE,
                                 !.result = NoCommand, !.raised = FALSE,
                                 !.seen = {race.input_mappings}]
    /\ UNCHANGED <<now, appvars, legacy, loop, parts>>

(* `if key in self.input_mappings': without an entry the call returns None *)
MapEventTest ==
  /\ race.pc = "called"
  /\ race' = IF HasEntry(race.input_mappings, race.event)
             THEN [race EXCEPT !.pc = "tested", !.found = TRUE]
             ELSE [race EXCEPT !.pc = "done", !.found = FALSE, !.result = NoCommand]
  /\ UNCHANGED <<now, appvars, legacy, loop, parts>>

(* `command_name = self.input_mappings[key]' and the command made of it;   *)
(* the subscript raises KeyError when the table has no such entry          *)
MapEventLookup ==
  /\ race.pc = "tested"
  /\ race' = IF HasEntry(race.input_mappings, race.event)
             THEN [race EXCEPT !.pc = "done",
                     !.result = create_command_from_name(race.input_mappings[race.event])]
             ELSE [race EXCEPT !.pc = "done", !.raised = TRUE]
  /\ UNCHANGED <<now, appvars, legacy, loop, parts>>

(* update_mappings(new_mappings), from another thread *)
UpdateMappings ==
  \E new_mappings \in Tables :
    /\ race.updates < MaxUpdates
    /\ race' = [race EXCEPT !.input_mappings = new_mappings,
                            !.updates = race.updates + 1,
                            !.seen = IF race.pc \in {"called", "tested"}
                                     THEN race.seen \cup {new_mappings} ELSE race.seen]
    /\ UNCHANGED <<now, appvars, legacy, loop, parts>>

NextMapper == MapEventCall \/ MapEventTest \/ MapEventLookup \/ UpdateMappings

SpecMapper == Init /\ [][NextMapper]_vars

(* ----------------------------- DogPuter.run ---------------------------- *)
RunMaxTime == 45
MaxSaves == 1

RunSteps == {0, 15}

(* clock.tick and the commands of this pass *)
RunPoll ==
  \E d \in RunSteps, quit \in BOOLEAN, event \in RunEvents, axes \in RunAxes :
    /\ loop.pc = "poll"
    /\ now + d <= RunMaxTime
    /\ now' = now + d
    /\ last_call' = NoCall
    /\ loop' = Run_get_commands(loop, quit, event, axes)
    /\ UNCHANGED <<mode, input_state, feedback_state, content_state, video_player,
                   legacy, race, parts>>

(* one turn of `for command in commands:' *)
RunCommand ==
  /\ loop.pc = "commands"
  /\ ~commands_done(loop)
  /\ LET command == Head(loop.commands) IN
       IF command = ExitCommand
       THEN /\ loop' = [loop EXCEPT !.commands = Tail(loop.commands), !.running = FALSE,
                                    !.exits = loop.exits + 1]
            /\ UNCHANGED <<now, appvars, legacy, race, parts>>
       ELSE \E env \in IF is_input_allowed(input_state, now).allowed
                       THEN EnvsOf(command) ELSE {NoEnv} :
              LET a == AppState_handle_command(
                         App([NoCall EXCEPT !.op = "handle_command", !.cmd = command]),
                         command, now, env)
              IN /\ Install(a)
                 /\ loop' = [loop EXCEPT
                      !.commands = Tail(loop.commands),
                      !.checked = loop.checked + 1,
                      !.accepted = loop.accepted + (IF a.log.rejected THEN 0 ELSE 1),
                      !.executes = loop.executes + a.log.execute_calls,
                      !.pc = IF a.log.raised THEN "crashed" ELSE "commands"]
                 /\ UNCHANGED <<now, legacy, race, parts>>

(* after the commands: the raw events and the configuration check *)
RunCheckConfig ==
  \E late_escape \in BOOLEAN, readable \in BOOLEAN :
    /\ loop.pc = "commands"
    /\ commands_done(loop)
    /\ loop' = Run_check_config(loop, now, late_escape, readable)
    /\ UNCHANGED <<now, appvars, legacy, race, parts>>

(* self.app_state.update(delta_time) *)
RunUpdate ==
  \E frame \in IF mode = "VIDEO" THEN BOOLEAN ELSE {TRUE} :
    LET a == AppState_update(App([NoCall EXCEPT !.op = "update"]), now,
                             [NoEnv EXCEPT !.frame = frame])
    IN /\ loop.pc = "update"
       /\ Install(a)
       /\ loop' = [loop EXCEPT !.pc = IF a.log.raised THEN "crashed" ELSE "view"]
       /\ UNCHANGED <<now, legacy, race, parts>>

(* generate_view_state and the rendering; then `while running:' *)
RunView ==
  \E frame \in IF mode = "VIDEO" THEN BOOLEAN ELSE {TRUE} :
    LET a == generate_view_state(App([NoCall EXCEPT !.op = "generate_view_state"]), now,
                                 [NoEnv EXCEPT !.frame = frame])
    IN /\ loop.pc = "view"
       /\ Install(a)
       /\ loop' = [loop EXCEPT !.pc = IF a.log.raised THEN "crashed"
                                      ELSE IF loop.running THEN "poll" ELSE "stopped"]
       /\ UNCHANGED <<now, legacy, race, parts>>

(* the web interface's thread: POST /api/mappings *)
SaveMappings ==
  \E mappings \in SavedTables, written \in BOOLEAN :
    /\ loop.pc \notin {"stopped", "crashed"}
    /\ loop.saves < MaxSaves
    /\ loop' = save_mappings(loop, mappings, now, written)
    /\ UNCHANGED <<now, appvars, legacy, race, parts>>

NextRun == RunPoll \/ RunCommand \/ RunCheckConfig \/ RunUpdate \/ RunView \/ SaveMappings

SpecRun == Init /\ [][NextRun]_vars

(* ------------------ InputMapper.map_event as a function ---------------- *)
(* InputMapper(table).map_event(event): a mapper is made with a table and  *)
(* is given one event                                                      *)
MapEvent ==
  \E table \in TranslateTables, event \in TranslateEvents :
    /\ ~trans.called
    /\ trans' = [table |-> table, event |-> event, result |-> map_event(table, event),
                 called |-> TRUE]
    /\ UNCHANGED <<now, appvars, legacy, race, loop, composite, keymap, simple, tts, player, more>>

NextTranslate == MapEvent

SpecTranslate == Init /\ [][NextTranslate]_vars

(* ---------------- the input handlers and their composite --------------- *)
MaxHandlers == 2
MaxQueue == 2
MaxMockEvents == 2

CompositeUnchanged ==
  UNCHANGED <<now, appvars, legacy, race, loop, trans, keymap, simple, tts, player, more>>

(* the contents pygame's queue can have *)
Queues == UNION {[1..n -> QueueEvents] : n \in 0..MaxQueue}

(* composite.add_handler(handler) *)
AddHandler ==
  \E kind \in HandlerKinds :
    /\ Len(composite.handlers) < MaxHandlers
    /\ composite' =
         [Called(composite, "add_handler", <<>>, 0) EXCEPT
            !.handlers = Append(composite.handlers,
                                CASE kind = "keyboard" -> KeyboardInputHandler
                                  [] kind = "joystick" -> JoystickInputHandler(composite.connected)
                                  [] kind = "mock" -> MockInputHandler)]
    /\ CompositeUnchanged

(* MockInputHandler.simulate_key_press(key) *)
SimulateKeyPress ==
  \E i \in 1..Len(composite.handlers), key \in MockKeys :
    /\ composite.handlers[i].kind = "mock"
    /\ Len(composite.handlers[i].events) < MaxMockEvents
    /\ composite' = [Called(composite, "simulate_key_press", <<>>, 0) EXCEPT
                       !.handlers[i].events = Append(composite.handlers[i].events, KeyDown(key))]
    /\ CompositeUnchanged

(* MockInputHandler.set_axis_value(0, value) *)
SetAxisValue ==
  \E i \in 1..Len(composite.handlers), value \in AxisValues :
    /\ composite.handlers[i].kind = "mock"
    /\ Len(composite.handlers[i].events) < MaxMockEvents
    /\ composite' = [Called(composite, "set_axis_value", <<>>, 0) EXCEPT
                       !.handlers[i].axis = value,
                       !.handlers[i].events = Append(composite.handlers[i].events, JoyAxisMotion)]
    /\ CompositeUnchanged

(* the joystick is unplugged *)
Disconnect ==
  /\ composite.connected
  /\ composite' = [Called(composite, "disconnect", <<>>, 0) EXCEPT !.connected = FALSE]
  /\ CompositeUnchanged

(* composite.update() *)
CompositeUpdate ==
  /\ composite' = Composite_update(Called(composite, "update", <<>>, 0))
  /\ CompositeUnchanged

(* composite.get_events() *)
GetEvents ==
  \E queue \in Queues :
    /\ composite' = Composite_get_events(Called(composite, "get_events", queue, 0), 1)
    /\ CompositeUnchanged

(* composite.get_commands() *)
GetCommands ==
  \E queue \in Queues, device \in AxisValues :
    /\ composite' = Composite_get_commands(Called(composite, "get_commands", queue, device), 1)
    /\ CompositeUnchanged

(* composite.get_axis_value(0) *)
GetAxisValue ==
  \E device \in AxisValues :
    /\ composite' =
         Composite_get_axis_value(Called(composite, "get_axis_value", <<>>, device), 0, 1)
    /\ CompositeUnchanged

(* the composite with its events and commands *)
NextComposite ==
  \/ AddHandler \/ SimulateKeyPress \/ Disconnect \/ CompositeUpdate
  \/ GetEvents \/ GetCommands

SpecComposite == Init /\ [][NextComposite]_vars

(* the composite with its axis values *)
NextAxis == AddHandler \/ SetAxisValue \/ Disconnect \/ CompositeUpdate \/ GetAxisValue

SpecAxis == Init /\ [][NextAxis]_vars

(* --------------------------- load_keymapping --------------------------- *)
(* load_keymapping(config_name) at start-up *)
LoadKeymapping ==
  \E file \in KeymappingFiles :
    LET r == load_keymapping(file) IN
    /\ keymap' = [file |-> file, result |-> r.result, raised |-> r.raised, called |-> TRUE]
    /\ UNCHANGED <<now, appvars, legacy, race, loop, trans, composite, simple, tts, player, more>>

NextKeymapping == LoadKeymapping

SpecKeymapping == Init /\ [][NextKeymapping]_vars

(* ----------------------- the simplified AppState ----------------------- *)
SimpleUnchanged ==
  UNCHANGED <<now, appvars, legacy, race, loop, trans, composite, keymap, tts, player, more>>

(* app_state.handle_command(command) of simple_main.py's loop *)
SimpleHandleCommand ==
  \E command \in SimpleCommands, played \in BOOLEAN :
    /\ simple' = Simple_handle_command(simple, command, played)
    /\ SimpleUnchanged

(* app_state.update(delta_time) of simple_main.py's loop; the player only  *)
(* answers a frame while a clip is not over                                *)
SimpleUpdate ==
  \E delta_time \in SimpleDeltas, frame \in BOOLEAN, complete \in BOOLEAN :
    /\ simple.mode # "EXITING"
    /\ ~(frame /\ complete)
    /\ simple' = Simple_update(simple, delta_time, frame, complete)
    /\ SimpleUnchanged

NextSimple == SimpleHandleCommand \/ SimpleUpdate

SpecSimple == Init /\ [][NextSimple]_vars

(* ----------------------------- TTSHandler ------------------------------ *)
MaxSpeeches == 3

TTSUnchanged ==
  UNCHANGED <<now, appvars, legacy, race, loop, trans, composite, keymap, simple, player, more>>

(* tts_handler.speak(text) on the main thread *)
Speak ==
  \E text \in SpeakTexts :
    /\ Len(tts.threads) < MaxSpeeches
    /\ tts' = TTS_speak(tts, text)
    /\ TTSUnchanged

(* a started speech thread is scheduled for the first time *)
SpeakThreadBegin ==
  \E i \in DOMAIN tts.threads :
    /\ tts.threads[i].pc = "started"
    /\ tts' = TTS_speak_thread_begin(tts, i)
    /\ TTSUnchanged

(* a speech thread is through with its speech *)
SpeakThreadEnd ==
  \E i \in DOMAIN tts.threads :
    /\ tts.threads[i].pc = "speaking"
    /\ tts' = TTS_speak_thread_end(tts, i)
    /\ TTSUnchanged

NextTTS == Speak \/ SpeakThreadBegin \/ SpeakThreadEnd

SpecTTS == Init /\ [][NextTTS]_vars

(* ------------------- the VideoPlayer driven on its own ------------------ *)
MaxPlayerTime == 30

PlayerUnchanged ==
  UNCHANGED <<now, appvars, legacy, race, loop, trans, composite, keymap, simple, tts, more>>

PlayerTick == Advance(Steps, MaxPlayerTime)

(* player.play_video(video_file); the frame kept for the fade is asked for *)
(* only when the file exists and a clip is current                         *)
PlayVideo ==
  \E video_file \in PlayerFiles, fstat \in PlayerFileStates, frame \in BOOLEAN :
    /\ ~(player.p.current_video # None /\ fstat \in {"video", "corrupt"}) => frame
    /\ player' = Player_play_video(player, video_file, now, fstat, frame)
    /\ PlayerUnchanged

(* player.update(); a frame is asked for only while a clip is loaded *)
PlayerUpdate ==
  \E frame \in BOOLEAN :
    /\ (player.p.current_video = None /\ player.p.next_video = None) => frame
    /\ player' = Player_update(player, now, frame)
    /\ PlayerUnchanged

(* player.toggle_pause() *)
TogglePause ==
  /\ player' = Player_toggle_pause(player, now)
  /\ PlayerUnchanged

(* player.pause() *)
PlayerPause ==
  /\ player' = Player_pause(player, now)
  /\ PlayerUnchanged

(* player.resume() *)
PlayerResume ==
  /\ player' = Player_resume(player, now)
  /\ PlayerUnchanged

(* player.stop() *)
PlayerStop ==
  /\ player' = Player_stop(player, now)
  /\ PlayerUnchanged

NextPlayer ==
  \/ PlayerTick \/ PlayVideo \/ PlayerUpdate \/ TogglePause \/ PlayerPause \/ PlayerResume
  \/ PlayerStop

SpecPlayer == Init /\ [][NextPlayer]_vars

(* --------------- ImageContent with the last selection noted ------------ *)
ImageUnchanged ==
  UNCHANGED <<now, mode, input_state, feedback_state, video_player, legacy, race, loop,
              trans, composite, keymap, simple, tts, player, later>>

(* image_content.set_image(image, display_time); the observer notes image  *)
SelectImage ==
  \E image \in Images :
    /\ content_state' =
         [content_state EXCEPT !.image_content =
            ImageContent_set_image(content_state.image_content, image, DEFAULT_DISPLAY_TIME, now)]
    /\ last_call' = [NoCall EXCEPT !.op = "set_image", !.played = image]
    /\ selected_image' = image
    /\ ImageUnchanged

(* image_content.update(delta_time) *)
SelectUpdate ==
  /\ content_state' =
       [content_state EXCEPT !.image_content =
          ImageContent_update(content_state.image_content, now).ic]
  /\ last_call' = [NoCall EXCEPT !.op = "image_update"]
  /\ UNCHANGED selected_image
  /\ ImageUnchanged

NextSelect == ImageTick \/ SelectImage \/ SelectUpdate

SpecSelect == Init /\ [][NextSelect]_vars

(* ------------- the application when the commands have ceased ---------- *)
(* commands arrive up to QuietFrom; the loop of DogPuter.run calls update  *)
(* once in every frame, so time passes only after the frame's update       *)
QuietFrom == 40

(* long enough after the last command for a fade, a whole clip and a text  *)
MaxQuietTime == QuietFrom + PlayerTransitionDuration + ClipDuration + ChannelTextTime + 15

QuietCommand ==
  /\ now <= QuietFrom
  /\ HandleCommand

QuietUpdate == Update

QuietTick ==
  /\ last_call.op = "update"
  /\ Advance(Steps, MaxQuietTime)

NextQuiet == QuietCommand \/ QuietUpdate \/ QuietTick

(* the loop does not stop between a frame's update and the next frame;    *)
(* that update keeps being called is what the claims about it assume       *)
SpecQuiet == Init /\ [][NextQuiet]_vars /\ WF_vars(QuietTick)

(* --------- save_mappings beside the configuration check, by steps ------ *)
MaxSyncSaves == 2

SyncUnchanged ==
  UNCHANGED <<now, appvars, legacy, race, loop, trans, composite, keymap, simple, tts,
              player, selected_image, rpi>>

(* config_check_interval passes *)
SyncElapse ==
  /\ ~sync.due /\ sync.mpc = "loop"
  /\ sync' = [sync EXCEPT !.due = TRUE]
  /\ SyncUnchanged

(* POST /api/mappings reaches save_mappings; the web thread is a daemon    *)
(* thread and ends with the process                                        *)
SyncSaveOpen ==
  \E mappings \in SavedTables, config_name \in ConfigNames :
    /\ sync.wpc = "idle" /\ sync.mpc # "crashed"
    /\ sync.started < MaxSyncSaves
    /\ sync' = save_mappings_open(sync, mappings, config_name)
    /\ SyncUnchanged

SyncSaveDump ==
  /\ sync.wpc = "opened" /\ sync.mpc # "crashed"
  /\ sync' = save_mappings_dump(sync)
  /\ SyncUnchanged

SyncSaveStamp ==
  /\ sync.wpc = "dumped" /\ sync.mpc # "crashed"
  /\ sync' = save_mappings_stamp(sync)
  /\ SyncUnchanged

SyncCompare ==
  /\ sync.mpc = "loop" /\ sync.due
  /\ sync' = Sync_compare(sync)
  /\ SyncUnchanged

SyncStore ==
  /\ sync.mpc = "changed"
  /\ sync' = Sync_store(sync)
  /\ SyncUnchanged

SyncReload ==
  /\ sync.mpc = "stored"
  /\ sync' = Sync_reload(sync)
  /\ SyncUnchanged

SyncInstall ==
  /\ sync.mpc = "loaded"
  /\ sync' = Sync_install(sync)
  /\ SyncUnchanged

SyncMain == SyncCompare \/ SyncStore \/ SyncReload \/ SyncInstall
SyncWeb == SyncSaveDump \/ SyncSaveStamp

NextSync == SyncElapse \/ SyncSaveOpen \/ SyncWeb \/ SyncMain

(* the loop keeps running, time keeps passing, and a save that was begun   *)
(* goes on to its end                                                      *)
SpecSync ==
  Init /\ [][NextSync]_vars /\ WF_vars(SyncElapse) /\ WF_vars(SyncMain) /\ WF_vars(SyncWeb)

(* ----------------------------- RPiVideoPlayer -------------------------- *)
MaxRpiCalls == 3

RpiUnchanged ==
  UNCHANGED <<now, appvars, legacy, race, loop, trans, composite, keymap, simple, tts,
              player, selected_image, sync>>

(* the main thread calls play_video(video_file) *)
RpiPlayVideo ==
  \E file_state \in RpiFileStates :
    /\ rpi.pc = "idle" /\ rpi.calls < MaxRpiCalls
    /\ rpi' = [rpi EXCEPT !.pc = "play_acquire", !.file_state = file_state,
                          !.calls = rpi.calls + 1, !.result = None]
    /\ RpiUnchanged

(* the main thread calls stop() *)
RpiStop ==
  /\ rpi.pc = "idle" /\ rpi.calls < MaxRpiCalls
  /\ rpi' = [rpi EXCEPT !.pc = "stop", !.calls = rpi.calls + 1, !.result = None]
  /\ RpiUnchanged

RpiPlayLocked ==
  /\ rpi.pc = "play_acquire" /\ rpi.lock = "free"
  /\ rpi' = Rpi_play_video_locked(rpi)
  /\ RpiUnchanged

RpiPlayBody ==
  /\ rpi.pc = "play_body"
  /\ rpi' = Rpi_play_video_body(rpi)
  /\ RpiUnchanged

(* threading.Lock is not re-entrant: the lock must be free, whoever asks *)
RpiStopLocked ==
  /\ rpi.pc \in {"stop", "play_stop"} /\ rpi.lock = "free"
  /\ rpi' = Rpi_stop_locked(rpi)
  /\ RpiUnchanged

RpiMonitorStart ==
  \E m \in DOMAIN rpi.monitor :
    /\ rpi.monitor[m] = "start"
    /\ rpi' = Rpi_monitor_start(rpi, m)
    /\ RpiUnchanged

(* the player process ends, by itself or killed, and wait() returns *)
RpiProcessExit ==
  \E p \in rpi.alive :
    /\ rpi' = [rpi EXCEPT !.alive = rpi.alive \ {p}]
    /\ RpiUnchanged

RpiMonitorWaited ==
  \E m \in DOMAIN rpi.monitor :
    /\ rpi.monitor[m] = "wait" /\ rpi.target[m] \notin rpi.alive
    /\ rpi' = Rpi_monitor_waited(rpi, m)
    /\ RpiUnchanged

RpiMonitorLocked ==
  \E m \in DOMAIN rpi.monitor :
    /\ rpi.monitor[m] = "lock" /\ rpi.lock = "free"
    /\ rpi' = Rpi_monitor_locked(rpi, m)
    /\ RpiUnchanged

RpiMain == RpiPlayLocked \/ RpiPlayBody \/ RpiStopLocked
RpiMonitor == RpiMonitorStart \/ RpiMonitorWaited \/ RpiMonitorLocked

NextRpi == RpiPlayVideo \/ RpiStop \/ RpiMain \/ RpiMonitor \/ RpiProcessExit

(* every thread that can take a step takes one in the end *)
SpecRpi == Init /\ [][NextRpi]_vars /\ WF_vars(RpiMain) /\ WF_vars(RpiMonitor)

(* ------------- the application with the key press handler ------------- *)
MaxKeyTime == 45

KeyTick == Advance(Steps, MaxKeyTime)

(* AppState.handle_key_press(key); the command of an admitted content key  *)
(* looks outside the program as in HandleCommand                           *)
HandleKeyPress ==
  \E key \in Keys :
    \E env \in IF /\ is_input_allowed(input_state, now).allowed
                   /\ KeyCommandName(key) \in ContentNames
                   /\ mode # "WAITING"
                THEN EnvsOf(ContentCommand(KeyCommandName(key))) ELSE {NoEnv} :
      /\ Install(AppState_handle_key_press(
                   App([NoCall EXCEPT !.op = "handle_key_press", !.key = key]), key, now, env))
      /\ UNCHANGED <<now, others>>

NextKeyPress == KeyTick \/ HandleCommand \/ HandleKeyPress \/ Update

SpecKeyPress == Init /\ [][NextKeyPress]_vars

Spec == Init /\ [][Next]_vars

(* --------------------------- the properties ---------------------------- *)
HandledCommand == last_call.op = "handle_command"
Updated == last_call.op = "update"
GateOpen == now - input_state.last_input_time >= input_state.input_cooldown

(* C1: a command handed to handle_command reaches execute exactly when, at *)
(* that moment, now - last_input_time >= input_cooldown; an executed       *)
(* command sets last_input_time to now, and nothing else moves it          *)
C1_Debounce ==
  [][IF HandledCommand'
     THEN /\ last_call'.executed <=> GateOpen
          /\ last_call'.rejected <=> ~GateOpen
          /\ last_call'.executed => input_state'.last_input_time = now
          /\ ~last_call'.executed => input_state'.last_input_time = input_state.last_input_time
     ELSE input_state'.last_input_time = input_state.last_input_time]_vars

(* a command was turned away some time after the one accepted before it *)
C1_Witness ==
  /\ HandledCommand /\ last_call.rejected /\ ~last_call.executed
  /\ now - input_state.last_input_time > 0
  /\ input_state.last_input_time > 0

(* C2: a command arriving before the cooldown has elapsed is not executed  *)
(* and changes nothing but the feedback, which becomes the active yellow   *)
(* rejection                                                               *)
C2_RejectFrame ==
  [][HandledCommand' /\ ~GateOpen
     => /\ ~last_call'.executed
        /\ last_call'.play_video_calls = 0
        /\ mode' = mode
        /\ content_state' = content_state
        /\ video_player' = video_player
        /\ input_state' = input_state
        /\ feedback_state' = [message |-> "too_fast", color |-> YELLOW, start_time |-> now,
                              is_active |-> TRUE, input_rejected |-> TRUE]]_vars

(* a command was rejected while a video was on *)
C2_Witness ==
  /\ HandledCommand /\ last_call.rejected
  /\ mode = "VIDEO" /\ video_player.current_video # None
  /\ feedback_state.color = YELLOW /\ feedback_state.is_active

ExecutedContent == HandledCommand /\ last_call.executed /\ last_call.cmd.type = "content"
ExecutedChannel == HandledCommand /\ last_call.executed /\ last_call.cmd.type = "channel"

(* C3: an executed SelectContent(name) that found neither a video to play  *)
(* nor an image to load ends in Text mode showing the name                 *)
C3_TextFallback ==
  ExecutedContent /\ last_call.play_video_calls = 0 /\ last_call.load_image = "None"
    => /\ mode = "TEXT"
       /\ content_state.current_type = "TEXT"
       /\ content_state.text_content.text = last_call.cmd.content_name

(* C4: after an executed ChangeChannel(d), from whatever mode, the mode is *)
(* Video or Text                                                           *)
C4_ChannelAlwaysSwitches ==
  ExecutedChannel => mode \in {"VIDEO", "TEXT"}

(* name's video is the clip the player is playing, in Video mode *)
ActivePlaying(name) ==
  /\ mode = "VIDEO"
  /\ content_state.current_type = "VIDEO"
  /\ content_state.video_content.is_playing
  /\ video_player.current_video = VideoFilename[name]
  /\ ~video_player.in_transition

(* C5: an executed SelectContent(name) while name's video is the active,   *)
(* playing video calls play_video no second time and leaves content state  *)
(* and player as they were                                                 *)
C5_IdempotentReselect ==
  [][ExecutedContent' /\ ActivePlaying(last_call'.cmd.content_name)
     => /\ last_call'.play_video_calls = 0
        /\ content_state' = content_state
        /\ video_player' = video_player]_vars

(* C6: the channel index stays in 0..N-1, an executed ChangeChannel(-1) at *)
(* index 0 yields N-1 and an executed ChangeChannel(+1) moves the index to *)
(* the next one modulo N (so that N of them in a row come back)            *)
C6_ChannelWrapAround ==
  [][/\ content_state'.video_content.current_channel \in 0..(NumChannels - 1)
     /\ ExecutedChannel'
        => content_state'.video_content.current_channel =
             (content_state.video_content.current_channel + last_call'.cmd.direction)
               % NumChannels]_vars

RejectionShown == feedback_state.is_active /\ feedback_state.input_rejected

(* C7: a rejection feedback that is showing stays as it is across every    *)
(* update at which the gate would still reject, is cleared by the first    *)
(* update at which the gate would accept, however long it has been shown,  *)
(* and no other step makes the feedback inactive                           *)
C7_RejectionInSyncWithGate ==
  [][RejectionShown
     => IF Updated'
        THEN IF GateOpen
             THEN ~feedback_state'.is_active /\ ~feedback_state'.input_rejected
             ELSE feedback_state' = feedback_state
        ELSE feedback_state'.is_active]_vars

(* an update has cleared a rejection whose display duration had not run out *)
C7_Witness ==
  /\ Updated /\ last_call.feedback_cleared
  /\ feedback_state.message = "too_fast" /\ ~feedback_state.is_active
  /\ now - feedback_state.start_time < FEEDBACK_DURATION
  /\ now - feedback_state.start_time > 0

(* the image set by the command accepted last is within its display time *)
ImageShowing ==
  /\ content_state.image_content.current_image # None
  /\ content_state.image_content.display_end_time - input_state.last_input_time
       \in {DEFAULT_DISPLAY_TIME, DEFAULT_DISPLAY_TIME + ImageTransitionDuration}
  /\ now < content_state.image_content.display_end_time

(* C8, the Text half: in Text mode an update moves content type and mode   *)
(* to Waiting exactly when now >= the text's display end time              *)
C8_TextExpiry ==
  [][Updated' /\ content_state.current_type = "TEXT"
     => IF now >= content_state.text_content.display_end_time
        THEN content_state'.current_type = "WAITING" /\ mode' = "WAITING"
        ELSE content_state'.current_type = "TEXT" /\ mode' = "TEXT"]_vars

(* C8: in Text mode an update moves content type and mode to Waiting       *)
(* exactly when now >= the display end time, and likewise an image that is *)
(* showing is not replaced by the waiting screen by an update before its   *)
(* display end time                                                        *)
C8_DisplayExpiry ==
  [][/\ Updated' /\ content_state.current_type = "TEXT"
        => IF now >= content_state.text_content.display_end_time
           THEN content_state'.current_type = "WAITING" /\ mode' = "WAITING"
           ELSE content_state'.current_type = "TEXT" /\ mode' = "TEXT"
     /\ Updated' /\ ImageShowing
        => content_state'.current_type # "WAITING" /\ mode' # "WAITING"]_vars

(* the text has expired at an update *)
C8_TextWitness ==
  /\ Updated /\ mode = "WAITING" /\ content_state.text_content.text # ""
  /\ now >= content_state.text_content.display_end_time
  /\ ~last_call.is_complete

PlayerStopped ==
  /\ video_player.current_video = None
  /\ video_player.video_surface = None
  /\ video_player.next_video = None
  /\ ~video_player.in_transition

(* C9: in Video mode an update moves content type and mode to Waiting, and *)
(* stops the player, exactly when the player reports end-of-stream; the    *)
(* player reports it only for an unpaused clip whose elapsed playback time *)
(* exceeds its duration                                                    *)
C9_VideoCompletion ==
  [][Updated' /\ content_state.current_type = "VIDEO"
     => IF last_call'.is_complete
        THEN /\ content_state'.current_type = "WAITING" /\ mode' = "WAITING"
             /\ PlayerStopped'
             /\ ~content_state'.video_content.is_playing
             /\ video_player.current_video # None /\ ~video_player.paused
             /\ now - video_player.start_time > ClipDuration
        ELSE content_state'.current_type = "VIDEO" /\ mode' = "VIDEO"]_vars

(* a clip has run to its end and the machine is back in Waiting *)
C9_Witness ==
  /\ Updated /\ last_call.is_complete
  /\ mode = "WAITING" /\ content_state.current_type = "WAITING"
  /\ video_player.current_video = None

(* C10: an executed SelectContent(name) whose image loads (no video having *)
(* started) returns normally and shows that image until now + the display  *)
(* time                                                                    *)
C10_ImageFallback ==
  ExecutedContent /\ last_call.load_image = "image"
    => /\ ~last_call.raised
       /\ content_state.current_type \notin {"WAITING", "VIDEO", "TEXT"}
       /\ \/ content_state.image_content.current_image = ImageName[last_call.cmd.content_name]
          \/ content_state.image_content.next_image = ImageName[last_call.cmd.content_name]
       /\ content_state.image_content.display_end_time >= now + DEFAULT_DISPLAY_TIME

(* C19: at all times base_cooldown <= input_cooldown <= max_cooldown, and  *)
(* right after an accepted command input_cooldown is base_cooldown and     *)
(* last_input_time is the time of the acceptance                           *)
C19_CooldownBounds ==
  /\ input_state.base_cooldown <= input_state.input_cooldown
  /\ input_state.input_cooldown <= input_state.max_cooldown
  /\ HandledCommand /\ last_call.executed
       => /\ input_state.input_cooldown = input_state.base_cooldown
          /\ input_state.last_input_time = now

(* a command was accepted later than the first instant, after another one *)
C19_Witness ==
  /\ HandledCommand /\ last_call.executed
  /\ now > StartTime + BaseCooldown
  /\ input_state.last_input_time = now
  /\ input_state.last_channel_change > 0
  /\ input_state.last_channel_change < now

Generated == last_call.op = "generate_view_state"
JoystickHandled == last_call.op = "handle_joystick"
ChannelChangeExecuted == last_call.channel_change = "executed"
ChannelChangeAttempted ==
  \/ HandledCommand /\ last_call.cmd.type = "channel"
  \/ JoystickHandled /\ last_call.direction # 0 /\ mode # "WAITING"

(* C15: generate_view_state has no side effects: a call leaves the         *)
(* application state as it was, the player's current video, transition     *)
(* flag and playback clock included (so that a further call on it yields   *)
(* the same render commands)                                               *)
C15_ViewGenerationPure ==
  [][Generated'
     => /\ mode' = mode
        /\ input_state' = input_state
        /\ feedback_state' = feedback_state
        /\ content_state' = content_state
        /\ video_player' = video_player]_vars

(* C16: the render commands come back in non-decreasing z_index order,     *)
(* commands of equal z_index in the order of their generation, and every   *)
(* feedback command behind every background or content command             *)
C16_RenderOrder ==
  Generated
    => \A i, j \in 1..Len(last_call.render) :
         i < j => /\ last_call.render[i].z_index <= last_call.render[j].z_index
                  /\ last_call.render[i].z_index = last_call.render[j].z_index
                       => last_call.render[i].seq < last_call.render[j].seq
                  /\ ~(last_call.render[i].layer = "feedback"
                         /\ last_call.render[j].layer = "content")

(* a video frame with its name overlay and frame border, generated in the  *)
(* order 0, 10, 5, came back under the icon and ring of a rejection        *)
C16_Witness ==
  /\ Generated /\ mode = "VIDEO"
  /\ Len(last_call.render) = 5
  /\ last_call.render[2].z_index = 5 /\ last_call.render[2].seq = 3
  /\ last_call.render[3].z_index = 10 /\ last_call.render[3].seq = 2
  /\ last_call.render[4].layer = "feedback" /\ last_call.render[4].z_index = 14
  /\ last_call.render[5].z_index = 15

(* C20: a channel change is executed only when the channel-change cooldown *)
(* has passed since the channel change executed before it, whether it      *)
(* comes as a command or from the joystick; last_channel_change is the     *)
(* time of the last executed one; an attempt made sooner leaves the        *)
(* channel index as it was                                                 *)
C20_ChannelCooldown ==
  [][/\ ChannelChangeExecuted'
        => /\ now - input_state.last_channel_change >= ChannelCooldown
           /\ input_state'.last_channel_change = now
     /\ input_state'.last_channel_change # input_state.last_channel_change
        => ChannelChangeExecuted'
     /\ ChannelChangeAttempted' /\ now - input_state.last_channel_change < ChannelCooldown
        => /\ ~ChannelChangeExecuted'
           /\ content_state'.video_content.current_channel
                = content_state.video_content.current_channel]_vars

(* the joystick has changed the channel, after an earlier channel change *)
C20_Witness ==
  /\ JoystickHandled /\ ChannelChangeExecuted
  /\ input_state.last_channel_change = now
  /\ now >= StartTime + 2 * ChannelCooldown
  /\ content_state.video_content.current_channel = 1
  /\ video_player.next_video = "birds.mp4"

ImageUpdated == last_call.op = "image_update"
ImageSet == last_call.op = "set_image"

(* C17: a crossfade started by set_image is ended (next becomes current,   *)
(* previous and next are cleared, in_transition becomes false) by the      *)
(* first update at which the time since its start is >= the transition     *)
(* duration; no update before that and no other step ends or alters it,    *)
(* and only set_image on a settled image starts one                        *)
C17_CrossfadeCompletion ==
  [][LET ic == content_state.image_content
         ic2 == content_state'.image_content
     IN IF ic.in_transition
        THEN IF ImageUpdated' /\ now - ic.transition_start_time >= ImageTransitionDuration
             THEN /\ ic2.current_image = ic.next_image
                  /\ ic2.previous_image = None /\ ic2.next_image = None
                  /\ ~ic2.in_transition
             ELSE /\ ic2.in_transition
                  /\ ic2.previous_image = ic.previous_image
                  /\ ic2.next_image = ic.next_image
                  /\ ic2.transition_start_time = ic.transition_start_time
        ELSE /\ ImageUpdated' => ic2 = ic
             /\ ic2.in_transition
                  => /\ ImageSet' /\ ic.current_image # None
                     /\ ic2.transition_start_time = now
                     /\ ic2.previous_image = ic.current_image
                     /\ ic2.next_image = last_call'.played]_vars

(* an update has ended a crossfade exactly one transition duration after   *)
(* its start                                                               *)
C17_Witness ==
  /\ ImageUpdated
  /\ ~content_state.image_content.in_transition
  /\ content_state.image_content.transition_start_time > 0
  /\ now - content_state.image_content.transition_start_time = ImageTransitionDuration
  /\ content_state.image_content.current_image = "water.jpg"
  /\ content_state.image_content.previous_image = None
  /\ content_state.image_content.next_image = None

(* the pair of crossfade images is complete and is there exactly during a  *)
(* crossfade                                                               *)
PairedWithCrossfade(previous_image, next_image, in_transition) ==
  /\ previous_image # None <=> next_image # None
  /\ previous_image # None <=> in_transition

(* C18, for ImageContent: holds under SpecImage *)
C18_ImageContentPairs ==
  PairedWithCrossfade(content_state.image_content.previous_image,
                      content_state.image_content.next_image,
                      content_state.image_content.in_transition)

(* C18: after every operation, whatever images were selected (also ones    *)
(* that fail to load) and whatever updates ran, the previous and the next  *)
(* image are both set or both absent, and set exactly while a crossfade is *)
(* in progress                                                             *)
C18_PreviousNextTogether ==
  /\ PairedWithCrossfade(content_state.image_content.previous_image,
                         content_state.image_content.next_image,
                         content_state.image_content.in_transition)
  /\ PairedWithCrossfade(legacy.previous_image, legacy.next_image, legacy.in_transition)

MapEventDone == race.pc = "done" /\ race.event # None

(* C13: a map_event that overlaps update_mappings returns what one         *)
(* complete table (the old one or a new one) gives for its event, and does *)
(* not fail                                                                *)
C13_AtomicTableSwap ==
  MapEventDone
    => /\ ~race.raised
       /\ \E table \in race.seen : race.result = map_input(table, race.event)

(* update or generate_view_state is the next call of this pass *)
BeforeUpdateOrView == loop.pc \in {"update", "view"}

(* C11 as stated: in every pass of DogPuter.run all the commands obtained  *)
(* from the input handler have been gate-checked (executed or rejected)    *)
(* before update and generate_view_state run, and execute was invoked      *)
(* exactly once per accepted command                                       *)
C11_AllCommandsGateChecked ==
  BeforeUpdateOrView
    => /\ loop.checked = loop.obtained
       /\ loop.executes = loop.accepted

(* C11 amended: in every pass every command obtained, except ExitCommand   *)
(* (which only clears `running' and is never gate-checked), has been       *)
(* gate-checked before update and generate_view_state run, and execute was *)
(* invoked exactly once per accepted command                               *)
C11_AllButExitGateChecked ==
  BeforeUpdateOrView
    => /\ loop.commands = <<>>
       /\ loop.checked + loop.exits = loop.obtained
       /\ loop.executes = loop.accepted
       /\ loop.accepted <= loop.checked

(* a pass with two commands, one executed and one rejected, now at the view *)
C11_Witness ==
  /\ loop.pc = "view"
  /\ loop.obtained = 2 /\ loop.checked = 2
  /\ loop.accepted = 1 /\ loop.executes = 1
  /\ last_call.op = "update"

(* C12: while axis 0 stays beyond the threshold on one side over           *)
(* consecutive polls, only the first of these polls yields a channel       *)
(* command                                                                 *)
C12_AxisFiresOnce == loop.held >= 2 => ~loop.axis_command

(* C14: once the loop has noticed a saved, non-empty mapping, the mapper   *)
(* of its input handler holds that table and the loop has not died         *)
C14_ReloadInstallsTable ==
  (loop.noticed /\ NonEmptyTable(loop.loaded))
    => /\ loop.pc # "crashed"
       /\ loop.input_mappings = loop.loaded

(* C21: whatever the table holds, a key-down of the escape key is          *)
(* translated to ExitCommand                                               *)
C21_EscapeAlwaysExits ==
  (trans.called /\ trans.event.type = "KEYDOWN" /\ trans.event.key = "K_ESCAPE")
    => trans.result = ExitCommand

(* escape pressed with a table that maps escape to the content "ball" *)
C21_Witness ==
  /\ trans.called /\ trans.event.type = "KEYDOWN" /\ trans.event.key = "K_ESCAPE"
  /\ trans.table["K_ESCAPE"] = "ball"
  /\ trans.result = ExitCommand

(* the table key an event stands for: the key, the button, the hat         *)
(* direction; None for an event that is not translated                     *)
EventKey(event) ==
  CASE event.type \in {"KEYDOWN", "JOYBUTTONDOWN"} -> event.key
    [] event.type = "JOYHATMOTION" ->
         IF event.value[1] > 0 THEN "hat_right"
         ELSE IF event.value[1] < 0 THEN "hat_left"
         ELSE IF event.value[2] > 0 THEN "hat_up"
         ELSE IF event.value[2] < 0 THEN "hat_down"
         ELSE None
    [] OTHER -> None

(* the event's key has an entry in the table of the call *)
EventMapped ==
  /\ EventKey(trans.event) \in DOMAIN trans.table
  /\ trans.table[EventKey(trans.event)] # None

EscapeEvent == trans.event.type = "KEYDOWN" /\ trans.event.key = "K_ESCAPE"

(* the four reserved names *)
ReservedCommand(name) ==
  CASE name = "channel_next" -> VideoChannelCommand(1)
    [] name = "channel_prev" -> VideoChannelCommand(-1)
    [] name = "pause" -> TogglePauseCommand
    [] name = "exit" -> ExitCommand

ReservedNames == {"channel_next", "channel_prev", "pause", "exit"}

(* C22 as stated: a mapped name is translated channel_next -> channel +1,  *)
(* channel_prev -> channel -1, pause -> toggle pause, exit -> exit, any    *)
(* other name n -> the content command carrying exactly n; an event whose  *)
(* key is not in the table (other than escape) yields no command           *)
C22_NameTranslation ==
  (trans.called /\ ~EscapeEvent)
    => IF EventMapped
       THEN LET name == trans.table[EventKey(trans.event)] IN
            trans.result = IF name \in ReservedNames THEN ReservedCommand(name)
                           ELSE ContentCommand(name)
       ELSE trans.result = NoCommand

(* C22 amended: as above, but a name that starts with "video_" gives the   *)
(* content command carrying the name without that prefix                   *)
C22_NameTranslationVideoPrefix ==
  (trans.called /\ ~EscapeEvent)
    => IF EventMapped
       THEN LET name == trans.table[EventKey(trans.event)] IN
            trans.result = IF name \in ReservedNames THEN ReservedCommand(name)
                           ELSE IF name = "video_ball" THEN ContentCommand("ball")
                           ELSE ContentCommand(name)
       ELSE trans.result = NoCommand

(* a hat pushed right and up with the hat direction 'right' mapped to a    *)
(* name with the video_ prefix                                             *)
C22_Witness ==
  /\ trans.called /\ trans.event.type = "JOYHATMOTION" /\ trans.event.value = <<1, 1>>
  /\ trans.table["hat_right"] = "video_ball"
  /\ trans.result = ContentCommand("ball")

(* the members' events one after the other, in the order of the members *)
RECURSIVE MemberEvents(_)
MemberEvents(member) ==
  IF member = <<>> THEN <<>> ELSE member[1].events \o MemberEvents(Tail(member))

(* C23: get_events of the composite returns the events its members         *)
(* returned, in the order the members were added and each member's events  *)
(* in their own order, none dropped and none twice                         *)
C23_EventsConcatenated ==
  composite.op = "get_events"
    => /\ Len(composite.member) = Len(composite.handlers)
       /\ composite.events = MemberEvents(composite.member)

(* two members that each had an event of their own *)
C23_Witness ==
  /\ composite.op = "get_events"
  /\ Len(composite.member) = 2
  /\ composite.member[1].events = <<KeyDown("K_a")>>
  /\ composite.member[2].events = <<KeyDown("K_z")>>
  /\ composite.events = <<KeyDown("K_a"), KeyDown("K_z")>>

(* the members whose value for axis 0 lies outside the dead zone *)
OutsideDeadzone ==
  {i \in 1..Len(composite.handlers) :
     Abs(Handler_get_axis_value(composite.handlers[i], 0, composite.device))
       > CompositeDeadzone}

C25_InactiveJoystickSilent ==
  \A i \in 1..Len(composite.member) :
    (composite.handlers[i].kind = "joystick" /\ composite.handlers[i].disconnected)
      => composite.member[i] = NoMember

(* C26: load_keymapping never raises, and for a file that is absent,       *)
(* unreadable or malformed it returns the default table                    *)
C26_KeymappingFallback ==
  keymap.called
    => /\ ~keymap.raised
       /\ keymap.file.kind # "object" => keymap.result = create_default_keymapping

(* handle_command has just tried a content command's video and the player  *)
(* could not play it                                                       *)
SimpleVideoFailed ==
  /\ simple.call.op = "handle_command"
  /\ simple.call.command.kind = "content"
  /\ simple.call.tried
  /\ ~simple.call.played

(* C27: in the simplified AppState, when a content command's video cannot  *)
(* be played, after handle_command returns the mode is WAITING and the     *)
(* feedback that is visible is the red error message                       *)
C27_FailedVideoShowsRedError ==
  SimpleVideoFailed =>
    /\ simple.mode = "WAITING"
    /\ simple.feedback_surface =
         [text |-> [msg |-> "Error", id |-> simple.call.command.name], color |-> Red]

(* C28: at most one speech is in progress at any time: a speak call made   *)
(* while an earlier speech has been started and has not finished starts no *)
(* new speech thread, and speak with empty text starts none                *)
C28_OneSpeechAtATime ==
  /\ Cardinality(InProgress(tts)) <= 1
  /\ (tts.call.op = "speak" /\ tts.call.busy) => ~tts.call.thread
  /\ (tts.call.op = "speak" /\ tts.call.text = "") => ~tts.call.thread

(* play_video has just succeeded for an existing video file while another  *)
(* video was current                                                       *)
PlayedOverCurrent ==
  /\ player.call.op = "play_video"
  /\ player.call.ok
  /\ player.call.fstat = "video"
  /\ player.call.before.current_video # None

(* the player enters the transition and keeps the current video *)
TransitionEntered ==
  PlayedOverCurrent =>
    /\ player.p.in_transition
    /\ player.p.next_video = player.call.video_file
    /\ player.p.current_video = player.call.before.current_video
    /\ player.p.transition_start_time = player.call.t

(* update has just run on a player that was in a transition with its       *)
(* current video loaded                                                    *)
UpdatedInTransition ==
  /\ player.call.op = "update"
  /\ player.call.before.in_transition
  /\ player.call.before.current_video # None
  /\ player.call.before.next_video # None

TransitionElapsed ==
  player.call.t - player.call.before.transition_start_time >= PlayerTransitionDuration

(* the new clip is current and its clock starts at the time of the call *)
SwitchedToNext ==
  /\ player.p.current_video = player.call.before.next_video
  /\ player.p.next_video = None
  /\ ~player.p.in_transition
  /\ player.p.start_time = player.call.t

(* the fade frame could not be made: line 267-275 of update *)
FadeFailed ==
  /\ player.call.before.previous_frame
  /\ ~player.call.frame

(* C29 as stated: a transition is entered with the current video kept, the *)
(* first update at or after transition_duration makes the new clip         *)
(* current, and no earlier update changes the player                       *)
C29_TransitionSwitchOnlyWhenElapsed ==
  /\ TransitionEntered
  /\ UpdatedInTransition =>
       IF TransitionElapsed THEN SwitchedToNext ELSE player.p = player.call.before

(* C29 amended: an earlier update leaves the player as it was unless the   *)
(* fade frame cannot be made, in which case it switches to the new clip at *)
(* once                                                                    *)
C29_TransitionSwitchUnlessFadeFails ==
  /\ TransitionEntered
  /\ UpdatedInTransition =>
       IF TransitionElapsed \/ FadeFailed
         THEN /\ player.p.current_video = player.call.before.next_video
              /\ player.p.next_video = None
              /\ ~player.p.in_transition
              /\ player.p.start_time = player.call.t
         ELSE player.p = player.call.before

C29_Witness ==
  /\ UpdatedInTransition
  /\ player.call.t - player.call.before.transition_start_time = PlayerTransitionDuration
  /\ SwitchedToNext
  /\ player.p.current_video # player.call.before.current_video

(* the clip of a successful play_video of an existing video file has just  *)
(* become current: at once when nothing was current, by the update that    *)
(* ends the transition otherwise                                           *)
NewClipCurrent ==
  \/ /\ player.call.op = "play_video"
     /\ player.call.ok
     /\ player.call.fstat = "video"
     /\ player.call.before.current_video = None
     /\ player.p.current_video = player.call.video_file
  \/ /\ player.call.op = "update"
     /\ player.call.before.in_transition
     /\ player.call.before.next_video # None
     /\ ~player.p.in_transition
     /\ player.p.current_video = player.call.before.next_video

(* C30: after any successful play_video of an existing video file, also    *)
(* when it is called while another video is playing or paused, paused is   *)
(* False once the new clip is current                                      *)
C30_NewVideoPlaysUnpaused ==
  NewClipCurrent => ~player.p.paused

(* C31: after VideoPlayer.stop(), from any player state, current_video,    *)
(* video_surface and next_video are None and paused and in_transition are  *)
(* False, so a following update returns no frame and not-complete          *)
C31_StopClearsPlayer ==
  player.call.op = "stop" =>
    /\ player.p.current_video = None
    /\ player.p.video_surface = None
    /\ player.p.next_video = None
    /\ ~player.p.paused
    /\ ~player.p.in_transition
    /\ \A frame \in BOOLEAN :
         LET r == VideoPlayer_update(player.p, player.call.t, frame) IN
         ~r.surface /\ ~r.is_complete

(* the last call resumed a paused clip: resume, or toggle_pause on a       *)
(* paused player                                                           *)
Resumed ==
  /\ player.call.op \in {"resume", "toggle_pause"}
  /\ player.call.before.paused
  /\ player.call.before.current_video # None

(* the delays after which the second toggle_pause is tried *)
ToggleDelays == {0, 5, 15}

(* C32: pause followed by resume preserves the playback position (the      *)
(* position right after resume equals the position at pause, however long  *)
(* the pause lasted), and toggle_pause applied twice restores the paused   *)
(* flag to its earlier value                                               *)
C32_PauseResumeKeepsPosition ==
  /\ Resumed =>
       /\ ~player.p.paused
       /\ player.call.t - player.p.start_time = player.position_at_pause
  /\ \A d \in ToggleDelays :
       VideoPlayer_toggle_pause(VideoPlayer_toggle_pause(player.p, now), now + d).paused
         = player.p.paused

(* a clip paused at a position other than its start is resumed after the   *)
(* pause has lasted a while                                                *)
C32_Witness ==
  /\ Resumed
  /\ player.call.op = "resume"
  /\ player.position_at_pause > 0
  /\ player.call.t - player.call.before.start_time > player.position_at_pause
  /\ player.call.t - player.p.start_time = player.position_at_pause

(* the commands have ceased, some content is shown and playback is not     *)
(* paused; what is left of the run is long enough for any content to end   *)
QuietAndBusy ==
  /\ now > QuietFrom
  /\ now <= QuietFrom + 15
  /\ mode # "WAITING"
  /\ ~video_player.paused

(* C33: if no further commands arrive and playback is not paused, then     *)
(* from any non-Idle mode, whatever content was selected, the machine      *)
(* returns to Idle (Waiting) after finitely many updates                   *)
C33_ReturnsToWaiting ==
  []<>(last_call.op = "update") => (QuietAndBusy ~> (mode = "WAITING"))

(* an accepted SelectContent was executed and neither asked the player for *)
(* its video nor fell back to the image: the repeat check suppressed it    *)
RepeatSuppressed ==
  /\ last_call.op = "handle_command"
  /\ last_call.cmd.type = "content"
  /\ last_call.executed
  /\ ~last_call.raised
  /\ last_call.play_video_calls = 0
  /\ last_call.load_image = "not_called"

(* the clip the player is playing, or fading to *)
ActuallyPlaying ==
  IF video_player.next_video # None THEN video_player.next_video
  ELSE video_player.current_video

(* C34: the repeat-selection check suppresses playback only when name's    *)
(* video is the one actually playing, in particular not after a channel    *)
(* change has replaced name's video                                        *)
C34_RepeatOnlyWhenPlaying ==
  RepeatSuppressed =>
    \/ ActuallyPlaying = VideoFilename[last_call.cmd.content_name]
    \/ video_player.current_video = None /\ video_player.video_surface # None

(* a command or an update has just completed *)
HandlerCompleted ==
  /\ last_call.op \in {"handle_command", "update"}
  /\ ~last_call.raised

(* C35: whenever the content type is not VIDEO after a command or an       *)
(* update completes, the video player holds no open clip, neither a        *)
(* current nor a pending one                                               *)
C35_NoClipOutsideVideo ==
  (HandlerCompleted /\ content_state.current_type # "VIDEO") =>
    /\ video_player.current_video = None
    /\ video_player.next_video = None

(* C36: a newly selected image replaces what is shown rather than being    *)
(* queued behind or overwritten by an older one: once no crossfade is in   *)
(* progress the current image is the most recently selected image          *)
C36_LatestImageShown ==
  (selected_image # None /\ ~content_state.image_content.in_transition) =>
    content_state.image_content.current_image = selected_image

(* C37: a mapped key handed to handle_key_press when the cooldown has      *)
(* elapsed has its command executed, whatever the mode at that moment      *)
C37_MappedKeyExecuted ==
  [][(last_call'.op = "handle_key_press" /\ KeyIsMapped(last_call'.key) /\ GateOpen)
       => last_call'.executed]_vars

(* C38: with save_mappings running in the web thread beside the loop's     *)
(* configuration check, every save that has returned is followed by a poll *)
(* that returns True and a reload that reads the whole content of that     *)
(* save or of a later one; and without a step of a new save in between,    *)
(* has_config_changed returns True at most once                            *)
C38_SaveIsNoticedOnce ==
  /\ \A k \in 1..MaxSyncSaves : (sync.completed >= k) ~> (sync.followed >= k)
  /\ [](sync.trues <= 1)

(* C39: a call of RPiVideoPlayer.play_video returns, also when a video is  *)
(* already playing and also beside the monitor threads and stop()          *)
C39_PlayVideoReturns ==
  (rpi.pc \in {"play_acquire", "play_stop", "play_body"}) ~> (rpi.pc = "idle")

SimpleHandled == simple'.call.op = "handle_command"

(* C40: in the simplified AppState, a command other than Exit handed to    *)
(* handle_command while the mode is PLAYING changes nothing: the mode, the *)
(* current video, the frame and the feedback stay, and the player is not   *)
(* called; the mode leaves PLAYING only in an update whose clip is         *)
(* complete (to WAITING) or by an Exit command                             *)
C40_PlayingIgnoresCommands ==
  [][/\ (simple.mode = "PLAYING" /\ SimpleHandled /\ simple'.call.command.kind # "exit")
          => /\ simple'.mode = "PLAYING"
             /\ simple'.current_video = simple.current_video
             /\ ~simple'.call.tried
             /\ simple'.video_frame = simple.video_frame
             /\ simple'.video_complete = simple.video_complete
             /\ simple'.feedback_text = simple.feedback_text
             /\ simple'.feedback_surface = simple.feedback_surface
             /\ simple'.feedback_time = simple.feedback_time
     /\ (simple.mode = "PLAYING" /\ simple'.mode # "PLAYING")
          => \/ /\ simple'.call.op = "update" /\ simple'.video_complete
                /\ simple'.mode = "WAITING"
             \/ /\ SimpleHandled /\ simple'.call.command.kind = "exit"
                /\ simple'.mode = "EXITING"]_vars

(* a content command for another clip was ignored while one was playing *)
C40_Witness ==
  /\ simple.mode = "PLAYING"
  /\ simple.call.op = "handle_command" /\ simple.call.command.kind = "content"
  /\ ~simple.call.tried
  /\ simple.call.command.name # simple.current_video
  /\ simple.feedback_text # NoText
====
